---- MODULE Spec2Model ----
(***************************************************************************)
(* Synchronization core of gol-sync-server (src/server.js): the sales      *)
(* ledgers (salesStore), the store registry (stores), the replicated       *)
(* catalog (productsStore, categoriesStore), the handlers that push and    *)
(* pull them, and the owner reports that read them.                        *)
(*                                                                         *)
(* JavaScript values are encoded as follows.                               *)
(*  - A JSON scalar used as a store id is a record [t, v]: t = "absent"    *)
(*    (undefined), "num" (the number v) or "str" (the string holding the   *)
(*    decimal numeral of v).  Map keys compare by SameValueZero, so the    *)
(*    number 1 and the string "1" are two different keys.                  *)
(*  - A time field (created_at, timestamp) is a natural number; 0 stands   *)
(*    for an absent (undefined, hence falsy) field.                        *)
(*  - A Date is a record [valid, ms]; new Date(undefined) is the invalid   *)
(*    date, every comparison with it is false.                             *)
(***************************************************************************)
EXTENDS Integers, Sequences, FiniteSets, TLC

\* ------------------------------------------------------------------ bounds
MaxStore == 2
MaxSaleNo == 2
MaxTotal == 1
MaxTime == 1
MaxBatch == 2
MaxRecords == 2
MaxPullTime == 2
MaxPullRecords == 2
MaxProdId == 1
MaxCode == 1
MaxPrice == 2
MaxCatId == 1
MaxCatName == 2
MaxCatBatch == 1
MaxCatalogPushes == 2
MaxInFlight == 1
MaxConcPushes == 2
MaxNow == 2
MaxRegistered == 1
MaxDay == 1
MaxName == 1
MaxLimit == 1
MaxPeriod == 2
MaxIdCode == 2
MaxIdPushes == 3
MaxScopeCats == 2
MaxScopeSales == 1
MaxChunks == 2
MaxChunkPushes == 2
MaxAdminId == 3
MaxAdminCode == 2
MaxPromoId == 1
MaxDeleteReqs == 5
MaxAdminReqs == 3
MaxCategoryId == 2
MaxCategoryReqs == 3
MaxAuthReqs == 3
MaxCreateReqs == 3
MaxFigTime == 3
MaxFigNow == 3
MaxFigRecords == 3
\* sales held by all the ledgers together when one store's sales are read
MaxDetailRecords == 2
\* requests sent while the catalog is read
MaxReadReqs == 3
\* requests sent while and after the startup load runs
MaxLoadReqs == 2
\* admin writes sent to one product, and how many of them at a time
MaxRaceReqs == 3
MaxRaceInFlight == 2

\* ------------------------------------------------------- program constants
\* products are written to the backend in chunks of this size (server.js:596)
BatchSize == 100
\* StoreDetail returns at most this many sales by default (server.js:961)
DefaultLimit == 100
\* Compare covers this many days by default (server.js:994)
DefaultPeriod == 7
\* 24 * 60 * 60 * 1000 ms (server.js:923): the clock counts half days
DayLen == 2
\* the owner password when the environment sets none (server.js:11)
OWNER_PASSWORD == "gol2024"

\* ------------------------------------------------------------- JS values
Absent == [t |-> "absent", v |-> 0]
Num(n) == [t |-> "num", v |-> n]
Str(n) == [t |-> "str", v |-> n]

\* JS truthiness of a scalar: undefined and the number 0 are falsy, every
\* non-empty string (also "0") is truthy.
Truthy(x) == x.t = "str" \/ (x.t = "num" /\ x.v # 0)

\* parseInt of a string holding a decimal numeral.
ParseInt(x) == Num(x.v)

\* The text a client puts in a query string for a store id.
ToQuery(x) == IF x.t = "absent" THEN Absent ELSE Str(x.v)

\* ----------------------------------------------------------------- dates
NewDate(x) == IF x = 0 THEN [valid |-> FALSE, ms |-> 0] ELSE [valid |-> TRUE, ms |-> x]
EpochDate(x) == [valid |-> TRUE, ms |-> x]
DateGT(a, b) == a.valid /\ b.valid /\ a.ms > b.ms
DateGE(a, b) == a.valid /\ b.valid /\ a.ms >= b.ms
DateLE(a, b) == a.valid /\ b.valid /\ a.ms <= b.ms
DateLT(a, b) == a.valid /\ b.valid /\ a.ms < b.ms

\* sale.created_at || sale.timestamp  (0 when both are absent)
EventField(sale) == IF sale.created_at # 0 THEN sale.created_at ELSE sale.timestamp

\* ------------------------------------------------------------ sequences
Range(s) == {s[i] : i \in 1..Len(s)}

RECURSIVE ConcatAll(_)
ConcatAll(ss) == IF ss = <<>> THEN <<>> ELSE Head(ss) \o ConcatAll(Tail(ss))

SeqsUpTo(S, n) == UNION {[1..k -> S] : k \in 0..n}

Count(s, x) == Cardinality({i \in 1..Len(s) : s[i] = x})

Min(a, b) == IF a < b THEN a ELSE b

Perms(n) == {f \in [1..n -> 1..n] : \A i, j \in 1..n : i # j => f[i] # f[j]}

\* Array.prototype.sort: a stable sort.  cmp is the comparator tabulated on
\* pairs of elements; x is placed before the first element y with
\* cmp[<<y, x>>] > 0 of the already sorted prefix.
RECURSIVE InsertBy(_, _, _)
InsertBy(sorted, x, cmp) ==
  IF sorted = <<>> THEN <<x>>
  ELSE IF cmp[<<Head(sorted), x>>] > 0 THEN <<x>> \o sorted
       ELSE <<Head(sorted)>> \o InsertBy(Tail(sorted), x, cmp)

RECURSIVE SortBy(_, _)
SortBy(s, cmp) ==
  IF s = <<>> THEN <<>>
  ELSE InsertBy(SortBy(SubSeq(s, 1, Len(s) - 1), cmp), s[Len(s)], cmp)

\* ------------------------------------------------------------- JS Map
\* A Map is the sequence of its entries [k, v] in insertion order.
MapHas(m, k) == \E i \in 1..Len(m) : m[i].k = k
MapIdx(m, k) == CHOOSE i \in 1..Len(m) : m[i].k = k
MapGet(m, k) == m[MapIdx(m, k)].v
MapGetOr(m, k, d) == IF MapHas(m, k) THEN MapGet(m, k) ELSE d
MapSet(m, k, v) ==
  IF MapHas(m, k) THEN [m EXCEPT ![MapIdx(m, k)] = [k |-> k, v |-> v]]
  ELSE Append(m, [k |-> k, v |-> v])
MapKeys(m) == {m[i].k : i \in 1..Len(m)}
MapValues(m) == [i \in 1..Len(m) |-> m[i].v]

\* ---------------------------------------------------------------- state
VARIABLES
  salesStore,      \* Map store id -> array of sales        (server.js:42)
  stores,          \* Map store id -> registered store      (server.js:43)
  productsStore,   \* Map store id -> array of products     (server.js:44)
  categoriesStore, \* Map category id -> category          (server.js:45)
  promotionsStore, \* Map 1 -> array of promotions         (server.js:46)
  cloudPromotions, \* the backend's promotions table, keyed by id
  cloudProducts,   \* the backend's products table, keyed by id
  cloudCategories, \* the backend's categories table, keyed by id
  handlers,        \* the catalog pushes and admin requests suspended on a
                   \* backend call
  nreq,            \* number of catalog and admin requests received so far
  useSupabase,     \* whether the durable backend is configured (server.js:23)
  now,             \* the clock
  req,             \* summary of the request handled last
  resp,            \* the response sent last
  saleLog,         \* history: the sales pushes accepted so far
  catLog,          \* history: the catalog pushes merged so far
  lastPushed,      \* history: per store and product key, the record pushed last
  pushLog,         \* history: the pushes that accepted records, each with its
                   \* store and the records it accepted
  lastCategory,    \* history: per category id, the category pushed last
  chunkLog,        \* history: the backend writes of product chunks that returned
  lastWrite        \* history: the write to a catalog collection that completed last

syncVars == <<salesStore, stores>>
promoVars == <<promotionsStore, cloudPromotions>>
catVars == <<productsStore, categoriesStore, cloudProducts, cloudCategories,
             handlers, nreq, promoVars>>
envVars == <<useSupabase, now>>
catHist == <<lastCategory, chunkLog, lastWrite>>
histVars == <<saleLog, catLog, lastPushed, pushLog, catHist>>
vars == <<salesStore, stores, productsStore, categoriesStore, cloudProducts,
          cloudCategories, handlers, nreq, useSupabase, now, req, resp,
          saleLog, catLog, lastPushed, pushLog, promotionsStore,
          cloudPromotions, lastCategory, chunkLog, lastWrite>>

\* ------------------------------------------------------------- inputs
Sales == [sale_number : 1..MaxSaleNo, total : 1..MaxTotal,
          created_at : 0..MaxTime, timestamp : 0..MaxTime]

\* body.storeId of a push: missing, the number 0, a number, or the string "1"
StoreIdInputs == {Absent, Num(0)} \cup {Num(n) : n \in 1..MaxStore} \cup {Str(1)}

\* query.since of a pull: missing, or a date string denoting the time v
NoSince == [t |-> "absent", v |-> 0]
SinceDate(T) == [t |-> "date", v |-> T]
SinceQueries == {NoSince} \cup {SinceDate(T) : T \in 0..MaxPullTime}

\* the sales pushed where the event times matter
TimedSales == [sale_number : 1..MaxSaleNo, total : {1},
               created_at : 0..MaxPullTime, timestamp : 0..MaxPullTime]

\* body.sales of a push: missing, a non-array object, or an array
SalesAbsent == [t |-> "absent", v |-> <<>>]
SalesObject == [t |-> "obj", v |-> <<>>]
SalesArray(b) == [t |-> "arr", v |-> b]

TotalRecords(m) == Len(ConcatAll(MapValues(m)))

NoReq == [op |-> "none", storeId |-> Absent, kind |-> "absent", numbers |-> <<>>,
          conflicts |-> 0, since |-> [t |-> "absent", v |-> 0]]
NoResp == [op |-> "none", status |-> 0]
NoWrite == [op |-> "none"]

\* ------------------------------------------------- POST /api/sync/push
PushValid(storeId, sales) == Truthy(storeId) /\ sales.t = "arr"

\* variant: a record is taken for a duplicate only when its whole content matches
NewSalesByContent(existingSales, sales) ==
  SelectSeq(sales, LAMBDA sale :
    ~ \E i \in 1..Len(existingSales) : existingSales[i] = sale)

NewSales(existingSales, sales) ==
  SelectSeq(sales, LAMBDA sale :
    ~ \E i \in 1..Len(existingSales) :
        existingSales[i].sale_number = sale.sale_number)

\* variant: a record with a stored sale number replaces the stored record
MergeSalesUpsert(existingSales, sales) ==
  [i \in 1..Len(existingSales) |->
     IF \E j \in 1..Len(sales) : sales[j].sale_number = existingSales[i].sale_number
     THEN sales[CHOOSE j \in 1..Len(sales) :
                  sales[j].sale_number = existingSales[i].sale_number]
     ELSE existingSales[i]]
  \o NewSales(existingSales, sales)

\* variant: the ledger is stored with the batch half merged
MergeSalesPartial(existingSales, sales) ==
  existingSales \o (IF NewSales(existingSales, sales) = <<>> THEN <<>>
                    ELSE <<Head(NewSales(existingSales, sales))>>)

MergeSales(existingSales, sales) == existingSales \o NewSales(existingSales, sales)

PushStore(m, storeId, sales) ==
  MapSet(m, storeId, MergeSales(MapGetOr(m, storeId, <<>>), sales))

PushResp(m, storeId, sales) ==
  IF ~ PushValid(storeId, sales)
  THEN [op |-> "push", status |-> 400, accepted |-> 0, totalSales |-> 0]
  ELSE [op |-> "push", status |-> 200,
        accepted |-> Len(NewSales(MapGetOr(m, storeId, <<>>), sales.v)),
        totalSales |-> Len(MapGet(PushStore(m, storeId, sales.v), storeId))]

\* what the model remembers of a push request: the store id, the kind of
\* body.sales, the sale numbers of the batch, and how many records of the
\* batch carry a stored sale number with a content other than the stored one
Conflicts(existingSales, sales) ==
  Cardinality({i \in 1..Len(sales) :
    \E j \in 1..Len(existingSales) :
       /\ existingSales[j].sale_number = sales[i].sale_number
       /\ existingSales[j] # sales[i]})

PushReq(m, storeId, sales) ==
  [op |-> "push", storeId |-> storeId, kind |-> sales.t,
   numbers |-> [i \in 1..Len(sales.v) |-> sales.v[i].sale_number],
   conflicts |-> Conflicts(MapGetOr(m, storeId, <<>>), sales.v),
   since |-> NoSince]

ReadReq(op, storeId, since) ==
  [op |-> op, storeId |-> storeId, kind |-> "absent", numbers |-> <<>>,
   conflicts |-> 0, since |-> since]

Push(storeId, sales) ==
  /\ req' = PushReq(salesStore, storeId, sales)
  /\ resp' = PushResp(salesStore, storeId, sales)
  /\ salesStore' = IF PushValid(storeId, sales)
                   THEN PushStore(salesStore, storeId, sales.v)
                   ELSE salesStore
  /\ UNCHANGED <<stores, catVars, envVars>>

\* -------------------------------------------------- GET /api/sync/pull
\* line 490: skip the requesting store's own ledger
PullSkips(storeId, id) == Truthy(storeId) /\ ParseInt(storeId) = id

\* lines 497-503: keep the sales strictly newer than since
\* variant: a sale dated exactly at since is kept
SinceKeepsInclusive(sale, since) == DateGE(NewDate(EventField(sale)), EpochDate(since.v))

SinceKeeps(sale, since) == DateGT(NewDate(EventField(sale)), EpochDate(since.v))

PullFilter(sales, since) ==
  IF since.t = "absent" THEN sales
  ELSE SelectSeq(sales, LAMBDA sale : SinceKeeps(sale, since))

\* lines 489-506: the ledgers in Map order, minus the skipped one
RECURSIVE PullCollect(_, _, _)
PullCollect(m, storeId, since) ==
  IF m = <<>> THEN <<>>
  ELSE (IF PullSkips(storeId, Head(m).k) THEN <<>> ELSE PullFilter(Head(m).v, since))
       \o PullCollect(Tail(m), storeId, since)

\* lines 509-513: timeB - timeA on new Date(created_at || timestamp || 0)
\* variant: the comparator with its operands swapped
PullCompareAscending(a, b) == EventField(a) - EventField(b)

PullCompare(a, b) == EventField(b) - EventField(a)

PullSort(sales) ==
  SortBy(sales, [p \in Range(sales) \X Range(sales) |-> PullCompare(p[1], p[2])])

PullSales(m, storeId, since) == PullSort(PullCollect(m, storeId, since))

\* caller is the store id of the pulling store (Absent: no storeId is sent);
\* the handler reads it from the query string, as text
Pull(caller, since) ==
  /\ req' = ReadReq("pull", caller, since)
  /\ resp' = [op |-> "pull", status |-> 200,
              sales |-> PullSales(salesStore, ToQuery(caller), since),
              count |-> Len(PullSales(salesStore, ToQuery(caller), since))]
  /\ UNCHANGED <<syncVars, catVars, envVars>>

\* ------------------------------------------------- GET /api/sync/stats
\* the name of the property obj[id]: the number 1 and the string "1" name
\* the same property
PropertyKey(id) == Str(id.v)

\* lines 555-557: an object whose property String(id) is set to the size of
\* each ledger in turn, a later ledger overwriting an earlier one of the
\* same property; the properties are kept in ascending order of the numeral
SalesByStore(m) ==
  LET keys == {PropertyKey(m[i].k) : i \in 1..Len(m)}
      last(key) == CHOOSE i \in 1..Len(m) :
                     /\ PropertyKey(m[i].k) = key
                     /\ \A j \in (i + 1)..Len(m) : PropertyKey(m[j].k) # key
      order == CHOOSE s \in [1..Cardinality(keys) -> keys] :
                 \A i, j \in 1..Cardinality(keys) : i < j => s[i].v < s[j].v
  IN [i \in 1..Cardinality(keys) |-> [k |-> order[i], v |-> Len(m[last(order[i])].v)]]

Stats ==
  /\ req' = ReadReq("stats", Absent, NoSince)
  /\ resp' = [op |-> "stats", status |-> 200,
              totalStores |-> Len(stores),
              totalSales |-> TotalRecords(salesStore),
              salesByStore |-> SalesByStore(salesStore)]
  /\ UNCHANGED <<syncVars, catVars, envVars>>

Init ==
  /\ salesStore = <<>>
  /\ stores = <<>>
  /\ productsStore = <<>>
  /\ categoriesStore = <<>>
  /\ promotionsStore = <<>>
  /\ cloudPromotions = <<>>
  /\ cloudProducts = <<>>
  /\ cloudCategories = <<>>
  /\ handlers = {}
  /\ nreq = 0
  /\ useSupabase = FALSE
  /\ now = 1
  /\ req = NoReq
  /\ resp = NoResp
  /\ saleLog = <<>>
  /\ catLog = <<>>
  /\ lastPushed = <<>>
  /\ pushLog = {}
  /\ lastCategory = <<>>
  /\ chunkLog = <<>>
  /\ lastWrite = NoWrite

DoPush ==
  LET room == Min(MaxBatch, MaxRecords - TotalRecords(salesStore)) IN
  /\ \E storeId \in StoreIdInputs :
       \E sales \in {SalesAbsent, SalesObject}
                      \cup {SalesArray(b) : b \in SeqsUpTo(Sales, room)} :
         Push(storeId, sales)
  /\ UNCHANGED histVars

DoPull ==
  /\ \E caller \in StoreIdInputs : \E since \in SinceQueries : Pull(caller, since)
  /\ UNCHANGED histVars

DoStats == Stats /\ UNCHANGED histVars

Next == DoPush \/ DoStats

Spec == Init /\ [][Next]_vars

\* ---------------------------------------- POST /api/sync/products/push
Products == [id : 0..MaxProdId, barcode : 0..MaxCode, sku : 0..MaxCode,
             price : 1..MaxPrice]
CategoryInputs == [id : 1..MaxCatId, name : 1..MaxCatName]

\* variant: the barcode is tried first, then the sku, then the id
ProductKeyByCode(p) ==
  IF p.barcode # 0 THEN Str(p.barcode)
  ELSE IF p.sku # 0 THEN Str(p.sku)
  ELSE IF p.id # 0 THEN Num(p.id) ELSE Absent

\* p.id || p.barcode || p.sku : ids are numbers, barcodes and skus strings
ProductKey(p) ==
  IF p.id # 0 THEN Num(p.id)
  ELSE IF p.barcode # 0 THEN Str(p.barcode)
  ELSE IF p.sku # 0 THEN Str(p.sku) ELSE Absent

\* variant: the incoming record is spread over the stored one, so a field the
\* incoming record lacks keeps the stored value
SpreadProduct(old, new) ==
  [id |-> IF new.id # 0 THEN new.id ELSE old.id,
   barcode |-> IF new.barcode # 0 THEN new.barcode ELSE old.barcode,
   sku |-> IF new.sku # 0 THEN new.sku ELSE old.sku,
   price |-> new.price]

PutProductSpread(productMap, p) ==
  MapSet(productMap, ProductKey(p),
         IF MapHas(productMap, ProductKey(p))
         THEN SpreadProduct(MapGet(productMap, ProductKey(p)), p) ELSE p)

\* productMap.set(key, p)                                   (lines 578, 584)
PutProduct(productMap, p) == MapSet(productMap, ProductKey(p), p)

\* the records of ps put one after the other, the first half before the
\* second (the map is evaluated before the records are looked at)
RECURSIVE PutProducts(_, _)
PutProducts(productMap, ps) ==
  IF productMap = <<>> /\ ps = <<>> THEN <<>>
  ELSE IF ps = <<>> THEN productMap
  ELSE IF Len(ps) = 1 THEN PutProduct(productMap, ps[1])
  ELSE PutProducts(PutProducts(productMap, SubSeq(ps, 1, Len(ps) \div 2)),
                   SubSeq(ps, Len(ps) \div 2 + 1, Len(ps)))

\* lines 573-588
MergeProducts(existingProducts, products) ==
  MapValues(PutProducts(PutProducts(<<>>, existingProducts), products))

\* variant: a category id that is in the map keeps its category
RECURSIVE PutCategoriesFirst(_, _)
PutCategoriesFirst(m, cats) ==
  IF cats = <<>> THEN m
  ELSE PutCategoriesFirst(IF MapHas(m, Num(Head(cats).id)) THEN m
                          ELSE MapSet(m, Num(Head(cats).id), Head(cats)), Tail(cats))

\* lines 620-622
RECURSIVE PutCategories(_, _)
PutCategories(m, cats) ==
  IF cats = <<>> THEN m
  ELSE PutCategories(MapSet(m, Num(Head(cats).id), Head(cats)), Tail(cats))

\* variant: the products after the last full chunk are not written
NumChunksFloor(products) == Len(products) \div BatchSize

\* lines 596-602: the i-th chunk, each product stamped with store and time
NumChunks(products) == (Len(products) + BatchSize - 1) \div BatchSize

Chunk(products, i) ==
  SubSeq(products, (i - 1) * BatchSize + 1, Min(i * BatchSize, Len(products)))

ChunkRows(products, i, storeId, t) ==
  [j \in 1..Len(Chunk(products, i)) |->
     [id |-> Chunk(products, i)[j].id, barcode |-> Chunk(products, i)[j].barcode,
      sku |-> Chunk(products, i)[j].sku, price |-> Chunk(products, i)[j].price,
      store_id |-> storeId, updated_at |-> t]]

CategoryRow(cat, t) == <<[id |-> cat.id, name |-> cat.name, updated_at |-> t]>>

\* upsert(rows, {onConflict: 'id'}) at the backend; a row without an id gets
\* a key of the backend's own and is not tracked here
RECURSIVE CloudUpsert(_, _)
CloudUpsert(table, rows) ==
  IF table = <<>> /\ rows = <<>> THEN <<>>
  ELSE IF rows = <<>> THEN table
  ELSE IF Len(rows) = 1
       THEN (IF rows[1].id # 0 THEN MapSet(table, rows[1].id, rows[1]) ELSE table)
  ELSE CloudUpsert(CloudUpsert(table, SubSeq(rows, 1, Len(rows) \div 2)),
                   SubSeq(rows, Len(rows) \div 2 + 1, Len(rows)))

Outcomes == {"ok", "error", "throw"}

\* lines 640-646
CatalogResp(h, ps) ==
  [op |-> "pushCatalog", status |-> 200, rid |-> h.rid,
   totalProducts |-> Len(MapGetOr(ps, h.storeId, <<>>)),
   isLastBatch |-> h.isLastBatch]

\* lines 619-646: the handler h, past its product writes, merges its
\* categories and either suspends on the first category write or responds;
\* hs are the other suspended handlers, ps the product lists as they are now
CategoriesPhase(h, hs, ps) ==
  IF h.categories # <<>>
  THEN /\ categoriesStore' = PutCategories(categoriesStore, h.categories)
       /\ IF useSupabase
          THEN /\ handlers' = hs \cup {[h EXCEPT !.pc = "cat", !.i = 1,
                                         !.rows = CategoryRow(h.categories[1], now)]}
               /\ resp' = resp
          ELSE /\ handlers' = hs
               /\ resp' = CatalogResp(h, ps)
  ELSE /\ categoriesStore' = categoriesStore
       /\ handlers' = hs
       /\ resp' = CatalogResp(h, ps)

\* lines 564-602: the handler runs up to its first backend call
PushCatalog(storeId, products, categories, isLastBatch) ==
  /\ req' = ReadReq("pushCatalog", storeId, NoSince)
  /\ nreq' = nreq + 1
  /\ IF ~ Truthy(storeId)
     THEN /\ resp' = [op |-> "pushCatalog", status |-> 400, rid |-> nreq + 1,
                      totalProducts |-> 0, isLastBatch |-> FALSE]
          /\ UNCHANGED <<productsStore, categoriesStore, handlers>>
     ELSE LET h == [rid |-> nreq + 1, storeId |-> storeId, products |-> products,
                    categories |-> categories, isLastBatch |-> isLastBatch,
                    pc |-> "chunk", i |-> 1,
                    rows |-> ChunkRows(products, 1, storeId, now),
                    mergedProducts |->
                      MergeProducts(MapGetOr(productsStore, storeId, <<>>), products)]
              ps == IF products # <<>>
                    THEN MapSet(productsStore, storeId, h.mergedProducts)
                    ELSE productsStore
          IN /\ productsStore' = ps
             /\ IF products # <<>> /\ useSupabase
                THEN /\ handlers' = handlers \cup {h}
                     /\ resp' = resp
                     /\ categoriesStore' = categoriesStore
                ELSE CategoriesPhase(h, handlers, ps)
  /\ UNCHANGED <<syncVars, envVars, cloudProducts, cloudCategories, promoVars>>

\* variant: the handler stores its merged list again once the write returns
ProductsAfterChunkStale(h, ps) == MapSet(ps, h.storeId, h.mergedProducts)

\* lines 603-613 leave productsStore alone
ProductsAfterChunk(h, ps) == ps

\* lines 603-613: a chunk write returns (ok, an error value, or a throw, all
\* of which the handler survives); the handler issues the next chunk or goes
\* on to its categories
ChunkDone(h, outcome) ==
  /\ h \in handlers /\ h.pc = "chunk"
  /\ cloudProducts' = IF outcome = "ok" THEN CloudUpsert(cloudProducts, h.rows)
                      ELSE cloudProducts
  /\ IF h.i < NumChunks(h.products)
     THEN /\ handlers' = (handlers \ {h}) \cup
                {[h EXCEPT !.i = h.i + 1,
                           !.rows = ChunkRows(h.products, h.i + 1, h.storeId, now)]}
          /\ UNCHANGED <<categoriesStore, resp>>
     ELSE CategoriesPhase(h, handlers \ {h}, ProductsAfterChunk(h, productsStore))
  /\ productsStore' = ProductsAfterChunk(h, productsStore)
  /\ UNCHANGED <<syncVars, envVars, cloudCategories, nreq, req, promoVars>>

\* lines 627-646: a category write returns; next category, or the response
CatDone(h, outcome) ==
  /\ h \in handlers /\ h.pc = "cat"
  /\ cloudCategories' = IF outcome = "ok" THEN CloudUpsert(cloudCategories, h.rows)
                        ELSE cloudCategories
  /\ IF h.i < Len(h.categories)
     THEN /\ handlers' = (handlers \ {h}) \cup
                {[h EXCEPT !.i = h.i + 1,
                           !.rows = CategoryRow(h.categories[h.i + 1], now)]}
          /\ resp' = resp
     ELSE /\ handlers' = handlers \ {h}
          /\ resp' = CatalogResp(h, productsStore)
  /\ UNCHANGED <<syncVars, envVars, productsStore, categoriesStore, cloudProducts,
                 nreq, req, promoVars>>

\* ---------------------------------------- GET /api/sync/products/pull
MasterStoreId(storeId) == IF Truthy(storeId) THEN ParseInt(storeId) ELSE Num(1)

PullCatalog(caller) ==
  /\ req' = ReadReq("pullCatalog", caller, NoSince)
  /\ resp' = [op |-> "pullCatalog", status |-> 200,
              products |-> MapGetOr(productsStore, MasterStoreId(ToQuery(caller)), <<>>),
              categories |-> MapValues(categoriesStore),
              count |-> Len(MapGetOr(productsStore, MasterStoreId(ToQuery(caller)), <<>>))]
  /\ UNCHANGED <<syncVars, catVars, envVars>>

\* The catalog: stores push product and category batches and pull the master
\* catalog, with or without the durable backend.
InitCatalog ==
  /\ salesStore = <<>>
  /\ stores = <<>>
  /\ productsStore = <<>>
  /\ categoriesStore = <<>>
  /\ promotionsStore = <<>>
  /\ cloudPromotions = <<>>
  /\ cloudProducts = <<>>
  /\ cloudCategories = <<>>
  /\ handlers = {}
  /\ nreq = 0
  /\ useSupabase \in BOOLEAN
  /\ now = 1
  /\ req = NoReq
  /\ resp = NoResp
  /\ saleLog = <<>>
  /\ catLog = <<>>
  /\ lastPushed = <<>>
  /\ pushLog = {}
  /\ lastCategory = <<>>
  /\ chunkLog = <<>>
  /\ lastWrite = NoWrite

\* history: the record pushed last under each product key of a store, and
\* whether it took the place of a different record
RECURSIVE NotePushed(_, _, _)
NotePushed(m, storeId, products) ==
  IF products = <<>> THEN m
  ELSE LET k == [s |-> storeId, key |-> ProductKey(Head(products))]
           was == MapGetOr(m, k, [last |-> Head(products), replaced |-> FALSE])
       IN NotePushed(MapSet(m, k, [last |-> Head(products),
                                   replaced |-> was.replaced \/ was.last # Head(products)]),
                     storeId, Tail(products))

\* a store sends its catalog in batches and flags the last one
DoPushCatalog ==
  /\ nreq < MaxCatalogPushes
  /\ Cardinality(handlers) < MaxInFlight
  /\ \E storeId \in StoreIdInputs :
       \E products \in SeqsUpTo(Products, MaxCatBatch) :
         \E categories \in SeqsUpTo(CategoryInputs, 1) :
           /\ PushCatalog(storeId, products, categories, nreq + 1 = MaxCatalogPushes)
           /\ lastPushed' = IF Truthy(storeId)
                             THEN NotePushed(lastPushed, storeId, products)
                             ELSE lastPushed
  /\ UNCHANGED <<saleLog, catLog, pushLog, catHist>>

DoChunkDone ==
  /\ \E h \in handlers : \E outcome \in Outcomes : ChunkDone(h, outcome)
  /\ UNCHANGED histVars

DoCatDone ==
  /\ \E h \in handlers : \E outcome \in Outcomes : CatDone(h, outcome)
  /\ UNCHANGED histVars

DoPullCatalog ==
  /\ \E caller \in StoreIdInputs : PullCatalog(caller)
  /\ UNCHANGED histVars

NextCatalog == DoPushCatalog \/ DoChunkDone \/ DoCatDone \/ DoPullCatalog

SpecCatalog == InitCatalog /\ [][NextCatalog]_vars

\* Concurrent pushes to one store with the durable backend configured: the
\* sales pushes run to completion, the catalog pushes suspend on their
\* backend writes and interleave.
InitConc ==
  /\ salesStore = <<>>
  /\ stores = <<>>
  /\ productsStore = <<>>
  /\ categoriesStore = <<>>
  /\ promotionsStore = <<>>
  /\ cloudPromotions = <<>>
  /\ cloudProducts = <<>>
  /\ cloudCategories = <<>>
  /\ handlers = {}
  /\ nreq = 0
  /\ useSupabase = TRUE
  /\ now = 1
  /\ req = NoReq
  /\ resp = NoResp
  /\ saleLog = <<>>
  /\ catLog = <<>>
  /\ lastPushed = <<>>
  /\ pushLog = {}
  /\ lastCategory = <<>>
  /\ chunkLog = <<>>
  /\ lastWrite = NoWrite

ConcPush ==
  /\ Len(saleLog) < MaxConcPushes
  /\ \E sale \in Sales :
       /\ Push(Num(1), SalesArray(<<sale>>))
       /\ saleLog' = Append(saleLog, <<sale>>)
  /\ UNCHANGED <<catLog, lastPushed, pushLog, catHist>>

ConcPushCatalog ==
  /\ nreq < MaxConcPushes
  /\ \E p \in Products :
       /\ PushCatalog(Num(1), <<p>>, <<>>, FALSE)
       /\ catLog' = Append(catLog, <<p>>)
  /\ UNCHANGED <<saleLog, lastPushed, pushLog, catHist>>

NextConc == ConcPush \/ ConcPushCatalog \/ DoChunkDone

SpecConc == InitConc /\ [][NextConc]_vars

\* Stores push dated sales one at a time and pull each other's sales.
PushOne ==
  /\ TotalRecords(salesStore) < MaxPullRecords
  /\ \E storeId \in {x \in StoreIdInputs : Truthy(x)} :
       \E sale \in TimedSales : Push(storeId, SalesArray(<<sale>>))
  /\ UNCHANGED histVars

NextPull == PushOne \/ DoPull

SpecPull == Init /\ [][NextPull]_vars

\* ------------------------------------------------ POST /api/sync/stores
\* a store name is a number; a store without a registry entry is shown
\* under the placeholder `Loja ${storeId}`
Placeholder(storeId) == [t |-> "loja", v |-> storeId]
GivenName(n) == [t |-> "given", v |-> n]

\* address and phone are stored and echoed as sent and are left out
RegisterStore(id, name) ==
  /\ stores' = MapSet(stores, id, [id |-> id, name |-> GivenName(name),
                                   registeredAt |-> now])
  /\ req' = [op |-> "register", storeId |-> id]
  /\ resp' = [op |-> "register", status |-> 200,
              store |-> [id |-> id, name |-> GivenName(name), registeredAt |-> now]]
  /\ UNCHANGED <<salesStore, catVars, envVars>>

\* ------------------------------------------------------- owner reports
\* the password sent with a request: the configured one, another, or none
Passwords == {OWNER_PASSWORD, "wrong", "none"}

\* line 683: req.headers['x-owner-password'] || req.query.password, each the
\* configured password, another text, or missing ("none")
SuppliedPassword(header, query) == IF header # "none" THEN header ELSE query

\* variant: a request that carries no password passes
CheckOwnerAuthOptional(password) == password = OWNER_PASSWORD \/ password = "none"

\* lines 682-688
CheckOwnerAuth(password) == password = OWNER_PASSWORD

\* a startDate / endDate query: missing, or the calendar day d; the server's
\* zone is taken to be UTC
NoDay == [t |-> "absent", v |-> 0]
Day(d) == [t |-> "day", v |-> d]
DayQueries == {NoDay} \cup {Day(d) : d \in 0..MaxDay}

\* a limit / period query: missing, or the numeral n
NoCount == [t |-> "absent", v |-> 0]
CountOf(n) == [t |-> "num", v |-> n]

ReportReq(op, password, storeId, startDate, endDate, limit, period) ==
  [op |-> op, password |-> password, storeId |-> storeId, start |-> startDate,
   end |-> endDate, limit |-> limit, period |-> period]

Unauthorized(op) == [op |-> op, status |-> 401]

\* toISOString().split('T')[0], and setHours(0, 0, 0, 0)
DayOf(t) == t \div DayLen
Midnight(t) == DayOf(t) * DayLen

\* lines 833-834, 963-964
RangeStart(startDate) ==
  IF startDate.t = "absent" THEN EpochDate(0) ELSE EpochDate(startDate.v * DayLen)
RangeEnd(endDate, t) ==
  IF endDate.t = "absent" THEN EpochDate(t)
  ELSE EpochDate(endDate.v * DayLen + DayLen - 1)

\* variant: a sale dated exactly at the end of the range is left out
InRangeExclusive(sale, start, end) ==
  /\ DateGE(NewDate(EventField(sale)), start)
  /\ DateLT(NewDate(EventField(sale)), end)

\* lines 852-855, 969-972
InRange(sale, start, end) ==
  /\ DateGE(NewDate(EventField(sale)), start)
  /\ DateLE(NewDate(EventField(sale)), end)

\* reduce((sum, sale) => sum + (sale.total || 0), 0)
RECURSIVE SumTotals(_)
SumTotals(sales) ==
  IF sales = <<>> THEN 0 ELSE Head(sales).total + SumTotals(Tail(sales))

\* a quotient, 0 when the divisor is 0
Ratio(n, d) == IF d > 0 THEN [n |-> n, d |-> d] ELSE [n |-> 0, d |-> 1]

\* new Date(b) - new Date(a): NaN when either date is invalid
DateDiff(a, b) ==
  IF a.valid /\ b.valid THEN [nan |-> FALSE, v |-> a.ms - b.ms]
  ELSE [nan |-> TRUE, v |-> 0]

\* the comparator of lines 882, 910, 931, 973
ReportCompare(a, b) == DateDiff(NewDate(EventField(b)), NewDate(EventField(a)))

\* Array.prototype.sort takes a NaN from its comparator for 0
SortValue(x) == IF x.nan THEN 0 ELSE x.v

ReportCompareTable(sales) ==
  [p \in Range(sales) \X Range(sales) |-> SortValue(ReportCompare(p[1], p[2]))]

\* whether the comparator is a consistent comparison function on S
Consistent(S, cmp) ==
  \A a, b, c \in S :
    /\ (cmp[<<a, b>>] = 0 /\ cmp[<<b, c>>] = 0) => cmp[<<a, c>>] = 0
    /\ (cmp[<<a, b>>] < 0 /\ cmp[<<b, c>>] < 0) => cmp[<<a, c>>] < 0
    /\ (cmp[<<a, b>>] > 0 /\ cmp[<<b, c>>] > 0) => cmp[<<a, c>>] > 0
    /\ (cmp[<<a, b>>] = 0) <=> (cmp[<<b, a>>] = 0)
    /\ (cmp[<<a, b>>] < 0) <=> (cmp[<<b, a>>] > 0)

\* the orders sort may leave an array in: the stable order when the
\* comparator is consistent, otherwise any order (implementation-defined)
ArraySortOutcomes(sales) ==
  IF Consistent(Range(sales), ReportCompareTable(sales))
  THEN {SortBy(sales, ReportCompareTable(sales))}
  ELSE {[i \in 1..Len(sales) |-> sales[f[i]]] : f \in Perms(Len(sales))}

\* sort of a filtered array: every date is valid, the comparator consistent
ReportSort(sales) == SortBy(sales, ReportCompareTable(sales))

NoSale == [sale_number |-> 0, total |-> 0, created_at |-> 0, timestamp |-> 0]

StoreNameOf(reg, storeId) ==
  IF MapHas(reg, storeId) THEN MapGet(reg, storeId).name ELSE Placeholder(storeId)

\* ------------------------------------------------ GET /api/owner/report
\* variant: a day's bucket is set anew by every sale of the day
SalesByDayLast(filteredSales) ==
  [d \in {DayOf(EventField(filteredSales[i])) : i \in 1..Len(filteredSales)} |->
     LET last == CHOOSE i \in 1..Len(filteredSales) :
                   /\ DayOf(EventField(filteredSales[i])) = d
                   /\ \A j \in 1..Len(filteredSales) :
                        DayOf(EventField(filteredSales[j])) = d => j <= i
     IN [revenue |-> filteredSales[last].total, transactions |-> 1]]

\* lines 862-870
SalesByDay(filteredSales) ==
  [d \in {DayOf(EventField(filteredSales[i])) : i \in 1..Len(filteredSales)} |->
     [revenue |-> SumTotals(SelectSeq(filteredSales,
                     LAMBDA sale : DayOf(EventField(sale)) = d)),
      transactions |-> Len(SelectSeq(filteredSales,
                     LAMBDA sale : DayOf(EventField(sale)) = d))]]

\* lines 849-883
ReportEntry(storeId, sales, reg, start, end) ==
  LET filteredSales == SelectSeq(sales, LAMBDA sale : InRange(sale, start, end)) IN
  [id |-> storeId, name |-> StoreNameOf(reg, storeId),
   revenue |-> SumTotals(filteredSales),
   transactions |-> Len(filteredSales),
   avgTicket |-> Ratio(SumTotals(filteredSales), Len(filteredSales)),
   salesByDay |-> SalesByDay(filteredSales),
   lastSale |-> IF Len(filteredSales) > 0 THEN ReportSort(filteredSales)[1] ELSE NoSale]

\* report.stores.sort((a, b) => b.revenue - a.revenue)
SortByRevenue(entries) ==
  SortBy(entries, [p \in Range(entries) \X Range(entries) |->
                     p[2].revenue - p[1].revenue])

RECURSIVE SumField(_, _)
SumField(entries, f) ==
  IF entries = <<>> THEN 0 ELSE Head(entries)[f] + SumField(Tail(entries), f)

\* variant: the totals run over every stored sale, whatever the range
ConsolidatedAnswerAllTime(m, reg, startDate, endDate, t) ==
  LET entries == [i \in 1..Len(m) |->
                    ReportEntry(m[i].k, m[i].v, reg, RangeStart(startDate),
                                RangeEnd(endDate, t))]
  IN [op |-> "report", status |-> 200, generatedAt |-> t,
      stores |-> SortByRevenue(entries),
      totals |-> [totalRevenue |-> SumTotals(ConcatAll(MapValues(m))),
                  totalTransactions |-> Len(ConcatAll(MapValues(m))),
                  avgTicket |-> Ratio(SumTotals(ConcatAll(MapValues(m))),
                                      Len(ConcatAll(MapValues(m))))]]

\* lines 832-895, on the ledgers m and the registry reg at time t
ConsolidatedAnswer(m, reg, startDate, endDate, t) ==
  LET entries == [i \in 1..Len(m) |->
                    ReportEntry(m[i].k, m[i].v, reg, RangeStart(startDate),
                                RangeEnd(endDate, t))]
  IN [op |-> "report", status |-> 200, generatedAt |-> t,
      stores |-> SortByRevenue(entries),
      totals |-> [totalRevenue |-> SumField(entries, "revenue"),
                  totalTransactions |-> SumField(entries, "transactions"),
                  avgTicket |-> Ratio(SumField(entries, "revenue"),
                                      SumField(entries, "transactions"))]]

ConsolidatedReport(password, startDate, endDate) ==
  /\ req' = ReportReq("report", password, Absent, startDate, endDate, NoCount, NoCount)
  /\ resp' = IF CheckOwnerAuth(password)
             THEN ConsolidatedAnswer(salesStore, stores, startDate, endDate, now)
             ELSE Unauthorized("report")
  /\ UNCHANGED <<syncVars, catVars, envVars>>

\* ------------------------------------------------ GET /api/owner/stores
\* lines 909-923 and 930-945, on a ledger already sorted
StatusFigures(sales, t) ==
  LET todaySales == SelectSeq(sales, LAMBDA sale :
                      DateGE(NewDate(EventField(sale)), EpochDate(Midnight(t))))
  IN [totalSales |-> Len(sales),
      todaySales |-> Len(todaySales),
      todayRevenue |-> SumTotals(todaySales),
      lastSaleAt |-> IF Len(sales) > 0 THEN EventField(sales[1]) ELSE 0,
      isActive |-> /\ Len(sales) > 0
                   /\ NewDate(EventField(sales[1])).valid
                   /\ t - EventField(sales[1]) < DayLen]

\* sales.sort(...) on the stored array itself: the ledgers after the handler
RECURSIVE SortedLedgers(_)
SortedLedgers(m) ==
  IF m = <<>> THEN {<<>>}
  ELSE {<<[k |-> Head(m).k, v |-> s]>> \o rest :
          s \in ArraySortOutcomes(Head(m).v), rest \in SortedLedgers(Tail(m))}

\* variant: the second loop lists every ledger, registered or not
StoreStatusAnswerAll(sorted, reg, t) ==
  [op |-> "stores", status |-> 200,
   stores |->
     [i \in 1..Len(reg) |->
        [id |-> reg[i].v.id, name |-> reg[i].v.name, registered |-> TRUE,
         figures |-> StatusFigures(MapGetOr(sorted, reg[i].k, <<>>), t)]]
     \o
     [i \in 1..Len(sorted) |->
        [id |-> sorted[i].k, name |-> Placeholder(sorted[i].k), registered |-> FALSE,
         figures |-> StatusFigures(sorted[i].v, t)]]]

\* lines 905-950, on the ledgers as sorted by the handler
StoreStatusAnswer(sorted, reg, t) ==
  [op |-> "stores", status |-> 200,
   stores |->
     [i \in 1..Len(reg) |->
        [id |-> reg[i].v.id, name |-> reg[i].v.name, registered |-> TRUE,
         figures |-> StatusFigures(MapGetOr(sorted, reg[i].k, <<>>), t)]]
     \o
     [i \in 1..Len(SelectSeq(sorted, LAMBDA e : ~ MapHas(reg, e.k))) |->
        LET e == SelectSeq(sorted, LAMBDA x : ~ MapHas(reg, x.k))[i] IN
        [id |-> e.k, name |-> Placeholder(e.k), registered |-> FALSE,
         figures |-> StatusFigures(e.v, t)]]]

StoreStatus(password) ==
  /\ req' = ReportReq("stores", password, Absent, NoDay, NoDay, NoCount, NoCount)
  /\ IF CheckOwnerAuth(password)
     THEN \E sorted \in SortedLedgers(salesStore) :
            /\ salesStore' = sorted
            /\ resp' = StoreStatusAnswer(sorted, stores, now)
     ELSE /\ salesStore' = salesStore
          /\ resp' = Unauthorized("stores")
  /\ UNCHANGED <<stores, catVars, envVars>>

\* ------------------------------- GET /api/owner/store/:storeId/sales
Take(s, n) == SubSeq(s, 1, Min(n, Len(s)))

LimitOf(limit) == IF limit.t = "absent" THEN DefaultLimit ELSE limit.v

\* lines 960-984; storeId is the text of the path parameter
StoreDetailAnswer(m, reg, storeId, startDate, endDate, limit, t) ==
  LET id == ParseInt(storeId)
      sales == MapGetOr(m, id, <<>>)
      filteredSales ==
        Take(ReportSort(SelectSeq(sales, LAMBDA sale :
               InRange(sale, RangeStart(startDate), RangeEnd(endDate, t)))),
             LimitOf(limit))
  IN [op |-> "storeSales", status |-> 200, storeId |-> id,
      store |-> [id |-> id, name |-> StoreNameOf(reg, id)],
      sales |-> filteredSales,
      count |-> Len(filteredSales),
      totalRevenue |-> SumTotals(filteredSales)]

StoreDetail(password, storeId, startDate, endDate, limit) ==
  /\ req' = ReportReq("storeSales", password, storeId, startDate, endDate, limit, NoCount)
  /\ resp' = IF CheckOwnerAuth(password)
             THEN StoreDetailAnswer(salesStore, stores, storeId, startDate, endDate,
                                    limit, now)
             ELSE Unauthorized("storeSales")
  /\ UNCHANGED <<syncVars, catVars, envVars>>

\* ----------------------------------------------- GET /api/owner/compare
PeriodOf(period) == IF period.t = "absent" THEN DefaultPeriod ELSE period.v

\* variant: a sale dated exactly at the next midnight falls into the bucket
DayBucketInclusive(sales, i, t) ==
  LET date == Midnight(t) - i * DayLen
      daySales == SelectSeq(sales, LAMBDA sale :
                    /\ DateGE(NewDate(EventField(sale)), EpochDate(date))
                    /\ DateLE(NewDate(EventField(sale)), EpochDate(date + DayLen)))
  IN [date |-> DayOf(date), revenue |-> SumTotals(daySales),
      transactions |-> Len(daySales)]

\* lines 1004-1021: the bucket of the day i days before today
DayBucket(sales, i, t) ==
  LET date == Midnight(t) - i * DayLen
      daySales == SelectSeq(sales, LAMBDA sale :
                    /\ DateGE(NewDate(EventField(sale)), EpochDate(date))
                    /\ DateLT(NewDate(EventField(sale)), EpochDate(date + DayLen)))
  IN [date |-> DayOf(date), revenue |-> SumTotals(daySales),
      transactions |-> Len(daySales)]

\* lines 1000-1030
CompareEntry(storeId, sales, reg, days, t) ==
  LET dailyData == [j \in 1..days |-> DayBucket(sales, days - j, t)] IN
  [storeId |-> storeId, storeName |-> StoreNameOf(reg, storeId),
   dailyData |-> dailyData,
   totalRevenue |-> SumField(dailyData, "revenue"),
   totalTransactions |-> SumField(dailyData, "transactions")]

\* comparison.sort((a, b) => b.totalRevenue - a.totalRevenue)
SortByTotalRevenue(entries) ==
  SortBy(entries, [p \in Range(entries) \X Range(entries) |->
                     p[2].totalRevenue - p[1].totalRevenue])

\* lines 994-1036
CompareAnswer(m, reg, period, t) ==
  [op |-> "compare", status |-> 200, period |-> PeriodOf(period),
   comparison |-> SortByTotalRevenue(
     [i \in 1..Len(m) |-> CompareEntry(m[i].k, m[i].v, reg, PeriodOf(period), t)])]

Compare(password, period) ==
  /\ req' = ReportReq("compare", password, Absent, NoDay, NoDay, NoCount, period)
  /\ resp' = IF CheckOwnerAuth(password)
             THEN CompareAnswer(salesStore, stores, period, now)
             ELSE Unauthorized("compare")
  /\ UNCHANGED <<syncVars, catVars, envVars>>

\* The owner reports: stores push batches of dated sales and register
\* themselves while the owner reads the reports, at some clock reading.
\* a sale is dated by created_at, or by timestamp alone, or not at all
ReportSales ==
  {sale \in [sale_number : 1..MaxSaleNo, total : 1..MaxTotal,
             created_at : 0..MaxPullTime, timestamp : 0..MaxTime] :
     sale.created_at = 0 \/ sale.timestamp = 0}

InitReport ==
  /\ salesStore = <<>>
  /\ stores = <<>>
  /\ productsStore = <<>>
  /\ categoriesStore = <<>>
  /\ promotionsStore = <<>>
  /\ cloudPromotions = <<>>
  /\ cloudProducts = <<>>
  /\ cloudCategories = <<>>
  /\ handlers = {}
  /\ nreq = 0
  /\ useSupabase = FALSE
  /\ now \in 1..MaxNow
  /\ req = NoReq
  /\ resp = NoResp
  /\ saleLog = <<>>
  /\ catLog = <<>>
  /\ lastPushed = <<>>
  /\ pushLog = {}
  /\ lastCategory = <<>>
  /\ chunkLog = <<>>
  /\ lastWrite = NoWrite

ReportPush ==
  LET room == Min(MaxBatch, MaxRecords - TotalRecords(salesStore)) IN
  /\ \E storeId \in {Num(n) : n \in 1..MaxStore} :
       \E b \in SeqsUpTo(ReportSales, room) \ {<<>>} :
         LET newSales == NewSales(MapGetOr(salesStore, storeId, <<>>), b) IN
         /\ Push(storeId, SalesArray(b))
         /\ pushLog' = IF newSales # <<>>
                       THEN pushLog \cup {[storeId |-> storeId, accepted |-> newSales]}
                       ELSE pushLog
  /\ UNCHANGED <<saleLog, catLog, lastPushed, catHist>>

DoRegisterStore ==
  /\ \E id \in {Num(n) : n \in 1..MaxRegistered} : \E name \in 1..MaxName :
       RegisterStore(id, name)
  /\ UNCHANGED histVars

\* a request without the owner password carries no other parameter here
DoConsolidatedReport ==
  /\ \E password \in Passwords : \E startDate \in DayQueries : \E endDate \in DayQueries :
       /\ CheckOwnerAuth(password) \/ (startDate = NoDay /\ endDate = NoDay)
       /\ ConsolidatedReport(password, startDate, endDate)
  /\ UNCHANGED histVars

DoStoreStatus ==
  /\ \E password \in Passwords : StoreStatus(password)
  /\ UNCHANGED histVars

DoStoreDetail ==
  /\ \E password \in Passwords : \E n \in 1..MaxStore :
       \E startDate \in DayQueries : \E endDate \in DayQueries :
         \E limit \in {NoCount} \cup {CountOf(k) : k \in 1..MaxLimit} :
           /\ \/ CheckOwnerAuth(password)
              \/ (n = 1 /\ startDate = NoDay /\ endDate = NoDay /\ limit = NoCount)
           /\ StoreDetail(password, Str(n), startDate, endDate, limit)
  /\ UNCHANGED histVars

DoCompare ==
  /\ \E password \in Passwords :
       \E period \in {NoCount} \cup {CountOf(k) : k \in 1..MaxPeriod} :
         /\ CheckOwnerAuth(password) \/ period = NoCount
         /\ Compare(password, period)
  /\ UNCHANGED histVars

NextReport ==
  \/ ReportPush \/ DoRegisterStore \/ DoConsolidatedReport \/ DoStoreStatus
  \/ DoStoreDetail \/ DoCompare

SpecReport == InitReport /\ [][NextReport]_vars

\* -------------------------------------------------- product identity
\* One store pushes products one at a time; the pushed records differ in
\* which of id, barcode and sku they carry and in the values of these.
IdentityProducts == [id : 0..MaxProdId, barcode : 0..MaxIdCode,
                     sku : 0..MaxIdCode, price : {1}]

InitIdentity == InitCatalog

IdentityPush ==
  /\ Len(catLog) < MaxIdPushes
  /\ Cardinality(handlers) < MaxInFlight
  /\ \E p \in IdentityProducts :
       /\ PushCatalog(Num(1), <<p>>, <<>>, FALSE)
       /\ catLog' = Append(catLog, <<p>>)
  /\ UNCHANGED <<saleLog, lastPushed, pushLog, catHist>>

NextIdentity == IdentityPush \/ DoChunkDone

SpecIdentity == InitIdentity /\ [][NextIdentity]_vars


\* ------------------------------------------- the scope of a catalog push
\* Stores push sales, register, and push catalog batches one after the
\* other (the next batch is sent once the previous one is answered); any
\* store pulls the catalog at any time.
ScopeProducts == [id : 1..MaxProdId, barcode : {0}, sku : {0}, price : 1..MaxPrice]
ScopeSales == {s \in Sales : s.created_at = MaxTime /\ s.timestamp = MaxTime
                              /\ s.sale_number = 1}

\* history: the category pushed last under each id, the later records of a
\* batch after the earlier ones
NoteCategories(last, cats) ==
  LET ids == {cats[i].id : i \in 1..Len(cats)} IN
  [id \in DOMAIN last \cup ids |->
     IF id \in ids
     THEN cats[CHOOSE i \in 1..Len(cats) :
                 /\ cats[i].id = id
                 /\ \A j \in 1..Len(cats) : cats[j].id = id => j <= i]
     ELSE last[id]]

InitScope == InitCatalog

ScopePush ==
  /\ TotalRecords(salesStore) < MaxScopeSales
  /\ \E storeId \in {Num(n) : n \in 1..MaxStore} : \E sale \in ScopeSales :
       Push(storeId, SalesArray(<<sale>>))
  /\ UNCHANGED histVars

ScopePushCatalog ==
  /\ nreq < MaxCatalogPushes
  /\ handlers = {}
  /\ \E storeId \in StoreIdInputs \ {Num(0)} :
       \E products \in SeqsUpTo(ScopeProducts, MaxCatBatch) :
         \E categories \in SeqsUpTo(CategoryInputs, MaxScopeCats) :
           /\ PushCatalog(storeId, products, categories, FALSE)
           /\ lastCategory' = IF Truthy(storeId)
                               THEN NoteCategories(lastCategory, categories)
                               ELSE lastCategory
  /\ UNCHANGED <<saleLog, catLog, lastPushed, pushLog, chunkLog, lastWrite>>

ScopePull ==
  /\ \E caller \in {Absent, Num(MaxStore)} : PullCatalog(caller)
  /\ UNCHANGED histVars

NextScope ==
  ScopePush \/ DoRegisterStore \/ ScopePushCatalog \/ DoChunkDone \/ DoCatDone
  \/ ScopePull

SpecScope == InitScope /\ [][NextScope]_vars

\* ------------------------------------------------ chunked backend writes
\* With the backend configured, a store pushes batches that fill up to
\* MaxChunks chunks, exactly or with one product more; every backend write
\* returns ok, an error value, or throws.
LongBatch(n, price) == [i \in 1..n |-> [id |-> i, barcode |-> 0, sku |-> 0,
                                        price |-> price]]

BatchLengths == ({k * BatchSize : k \in 1..MaxChunks}
                 \cup {k * BatchSize + 1 : k \in 0..MaxChunks})

InitChunks == InitConc

ChunkPush ==
  /\ nreq < MaxChunkPushes
  /\ Cardinality(handlers) < MaxInFlight
  /\ \E n \in BatchLengths : \E price \in 1..MaxPrice :
       /\ PushCatalog(Num(1), LongBatch(n, price), <<>>, FALSE)
       /\ catLog' = Append(catLog, LongBatch(n, price))
  /\ UNCHANGED <<saleLog, lastPushed, pushLog, catHist>>

ChunkReturn ==
  /\ \E h \in handlers : \E outcome \in Outcomes :
       /\ ChunkDone(h, outcome)
       /\ chunkLog' = Append(chunkLog, [rid |-> h.rid, rows |-> h.rows,
                                        outcome |-> outcome])
  /\ UNCHANGED <<saleLog, catLog, lastPushed, pushLog, lastCategory, lastWrite>>

NextChunks == ChunkPush \/ ChunkReturn

SpecChunks == InitChunks /\ [][NextChunks]_vars

\* ------------------------------------------------ persistence adapter
\* A value of categoriesStore is a category (as PushCatalog sets it, under
\* the category's id) or an array of categories (as the admin handlers and
\* db.saveCategory keep it, under the key 1); an array is the record
\* [array |-> the sequence of its elements].
IsArray(v) == "array" \in DOMAIN v
ArrayOf(items) == [array |-> items]

\* Array.prototype.findIndex, 0 standing for -1; tests[i] is the outcome of
\* the callback on the i-th element
FindIndex(tests) ==
  IF \E i \in 1..Len(tests) : tests[i]
  THEN CHOOSE i \in 1..Len(tests) : tests[i] /\ \A j \in 1..(i - 1) : ~ tests[j]
  ELSE 0

\* findIndex(p => p.id === id), also for p.id == id on the ids used here
IndexOfId(list, id) == FindIndex([i \in 1..Len(list) |-> list[i].id = id])

\* list.splice(idx, 1)
Splice(list, idx) == SubSeq(list, 1, idx - 1) \o SubSeq(list, idx + 1, Len(list))

\* {...old, ...new}: a field the request body lacks (0) keeps the stored value
Spread(old, new) ==
  [f \in DOMAIN old \cup DOMAIN new |->
     IF f \in DOMAIN new /\ (new[f] # 0 \/ f \notin DOMAIN old) THEN new[f] ELSE old[f]]

\* Date.now() as an identifier: beyond the identifiers the requests carry
ClockId(t) == MaxAdminId + t

\* lines 1165-1170 (1239-1244, 1320-1325): updated_at is refreshed; a record
\* without id gets Date.now() as its id, and created_at
Stamp(record, t) ==
  [f \in DOMAIN record \cup {"updated_at"}
         \cup (IF record.id = 0 THEN {"created_at"} ELSE {}) |->
     IF f = "updated_at" THEN t
     ELSE IF record.id = 0 /\ f = "created_at" THEN t
     ELSE IF record.id = 0 /\ f = "id" THEN ClockId(t)
     ELSE record[f]]

\* lines 82-85 (135-138, 185-188): the record with the id is replaced, or the
\* record is appended
SaveInList(list, record) ==
  IF IndexOfId(list, record.id) > 0
  THEN [list EXCEPT ![IndexOfId(list, record.id)] = record]
  ELSE Append(list, record)

\* lines 98-99 (149-150, 198-199, 1205-1208, 1278-1281, 1360-1363): the
\* first record with the id is removed
RemoveFromList(list, id) ==
  IF IndexOfId(list, id) > 0
  THEN Splice(list, IndexOfId(list, id))
  ELSE list

\* lines 97-100 (197-200, 1204-1209, 1359-1364): forEach over the lists of a Map
RemoveFromAll(m, id) ==
  [i \in 1..Len(m) |-> [k |-> m[i].k, v |-> RemoveFromList(m[i].v, id)]]

\* db.saveProduct past the backend (lines 80-86)
SaveProductFallback(ps, product) ==
  MapSet(ps, Num(1), SaveInList(MapGetOr(ps, Num(1), <<>>), product))

\* upsert(record, {onConflict: 'id'}) of one record at the backend
CloudSave(table, record) == MapSet(table, record.id, record)

\* delete().eq('id', id) at the backend
CloudDelete(table, id) == SelectSeq(table, LAMBDA e : e.k # id)

\* ------------------------------------------- POST /api/admin/products
AdminReq(op, password, arg) == [op |-> op, password |-> password, arg |-> arg]
AdminResp(op, rid, status, arg) == [op |-> op, rid |-> rid, status |-> status, arg |-> arg]

\* lines 1176-1185: the first record with the id, or with the barcode when
\* the stored record has one, takes the fields of the product; else append
CacheProductMatch(p, product) ==
  p.id = product.id \/ (p.barcode # 0 /\ p.barcode = product.barcode)

\* variant: the stored record keeps its fields, the product fills the gaps
CacheProductKeep(ps, product) ==
  LET products == MapGetOr(ps, Num(1), <<>>)
      existingIndex == FindIndex([i \in 1..Len(products) |->
                                  CacheProductMatch(products[i], product)])
  IN MapSet(ps, Num(1),
            IF existingIndex > 0
            THEN [products EXCEPT ![existingIndex] = Spread(product, products[existingIndex])]
            ELSE Append(products, product))

CacheProduct(ps, product) ==
  LET products == MapGetOr(ps, Num(1), <<>>)
      existingIndex == FindIndex([i \in 1..Len(products) |->
                                  CacheProductMatch(products[i], product)])
  IN MapSet(ps, Num(1),
            IF existingIndex > 0
            THEN [products EXCEPT ![existingIndex] = Spread(products[existingIndex], product)]
            ELSE Append(products, product))

\* the handler up to its backend call; without a backend db.saveProduct and
\* the rest of the handler run at once
UpsertProduct(password, p) ==
  /\ req' = AdminReq("upsertProduct", password, Stamp(p, now))
  /\ nreq' = nreq + 1
  /\ IF ~ CheckOwnerAuth(password)
     THEN /\ resp' = Unauthorized("upsertProduct")
          /\ UNCHANGED <<productsStore, handlers>>
     ELSE IF useSupabase
     THEN /\ handlers' = handlers \cup {[rid |-> nreq + 1, pc |-> "saveProduct",
                                         arg |-> Stamp(p, now)]}
          /\ UNCHANGED <<productsStore, resp>>
     ELSE /\ productsStore' =
               CacheProduct(SaveProductFallback(productsStore, Stamp(p, now)),
                            Stamp(p, now))
          /\ resp' = AdminResp("upsertProduct", nreq + 1, 200, Stamp(p, now))
          /\ handlers' = handlers
  /\ UNCHANGED <<syncVars, envVars, categoriesStore, cloudProducts, cloudCategories,
                 promoVars>>

\* variant: a failed backend write is reported to the caller, and nothing is
\* cached
SaveProductDoneStrict(h, outcome) ==
  /\ h \in handlers /\ h.pc = "saveProduct"
  /\ cloudProducts' = IF outcome = "ok" THEN CloudSave(cloudProducts, h.arg)
                      ELSE cloudProducts
  /\ productsStore' = IF outcome = "ok" THEN CacheProduct(productsStore, h.arg)
                      ELSE productsStore
  /\ handlers' = handlers \ {h}
  /\ resp' = IF outcome = "ok" THEN AdminResp("upsertProduct", h.rid, 200, h.arg)
             ELSE [op |-> "upsertProduct", rid |-> h.rid, status |-> 500]
  /\ UNCHANGED <<syncVars, envVars, categoriesStore, cloudCategories, nreq, req,
                 promoVars>>

\* lines 68-78, 1176-1188: the backend write returns; on ok db.saveProduct
\* returns the stored row, on an error or a throw it logs and falls back to
\* the memory list; the handler then updates the cache and answers
SaveProductDone(h, outcome) ==
  /\ h \in handlers /\ h.pc = "saveProduct"
  /\ cloudProducts' = IF outcome = "ok" THEN CloudSave(cloudProducts, h.arg)
                      ELSE cloudProducts
  /\ productsStore' = CacheProduct(IF outcome = "ok" THEN productsStore
                                   ELSE SaveProductFallback(productsStore, h.arg),
                                   h.arg)
  /\ handlers' = handlers \ {h}
  /\ resp' = AdminResp("upsertProduct", h.rid, 200, h.arg)
  /\ UNCHANGED <<syncVars, envVars, categoriesStore, cloudCategories, nreq, req,
                 promoVars>>

\* --------------------------------------- DELETE /api/admin/products/:id
\* lines 97-100 in db.deleteProduct, then lines 1204-1209 in the handler
DeleteProductCache(ps, id) == RemoveFromAll(RemoveFromAll(ps, id), id)

DeleteProduct(password, id) ==
  /\ req' = AdminReq("deleteProduct", password, id)
  /\ nreq' = nreq + 1
  /\ IF ~ CheckOwnerAuth(password)
     THEN /\ resp' = Unauthorized("deleteProduct")
          /\ UNCHANGED <<productsStore, handlers>>
     ELSE IF useSupabase
     THEN /\ handlers' = handlers \cup {[rid |-> nreq + 1, pc |-> "deleteProduct",
                                         arg |-> id]}
          /\ UNCHANGED <<productsStore, resp>>
     ELSE /\ productsStore' = DeleteProductCache(productsStore, id)
          /\ resp' = AdminResp("deleteProduct", nreq + 1, 200, id)
          /\ handlers' = handlers
  /\ UNCHANGED <<syncVars, envVars, categoriesStore, cloudProducts, cloudCategories,
                 promoVars>>

\* lines 91-95: the delete returns; a failure is logged (a throw) or ignored
\* (an error value), and the lists are cleaned either way
DeleteProductDone(h, outcome) ==
  /\ h \in handlers /\ h.pc = "deleteProduct"
  /\ cloudProducts' = IF outcome = "ok" THEN CloudDelete(cloudProducts, h.arg)
                      ELSE cloudProducts
  /\ productsStore' = DeleteProductCache(productsStore, h.arg)
  /\ handlers' = handlers \ {h}
  /\ resp' = AdminResp("deleteProduct", h.rid, 200, h.arg)
  /\ UNCHANGED <<syncVars, envVars, categoriesStore, cloudCategories, nreq, req,
                 promoVars>>

\* ------------------------------------------ POST /api/admin/categories
\* lines 1254-1259 (1335-1340): the record with the id takes the fields of
\* the incoming record, else the incoming record is appended
CacheRecord(list, record) ==
  IF IndexOfId(list, record.id) > 0
  THEN [list EXCEPT ![IndexOfId(list, record.id)] =
          Spread(list[IndexOfId(list, record.id)], record)]
  ELSE Append(list, record)

\* lines 133-138 (when fallback) and 1250-1259: both take the value under key
\* 1 for an array; findIndex on a category that PushCatalog stored under the
\* id 1 is a TypeError, raised before anything is written
CategoryAt1(m) == MapGetOr(m, Num(1), ArrayOf(<<>>))

CacheCategoryThrows(m) == ~ IsArray(CategoryAt1(m))

CacheCategory(m, category, fallback) ==
  MapSet(m, Num(1),
         ArrayOf(CacheRecord(IF fallback THEN SaveInList(CategoryAt1(m).array, category)
                             ELSE CategoryAt1(m).array, category)))

InternalError(op, rid) == [op |-> op, rid |-> rid, status |-> 500]

UpsertCategory(password, c) ==
  /\ req' = AdminReq("upsertCategory", password, Stamp(c, now))
  /\ nreq' = nreq + 1
  /\ IF ~ CheckOwnerAuth(password)
     THEN /\ resp' = Unauthorized("upsertCategory")
          /\ UNCHANGED <<categoriesStore, handlers>>
     ELSE IF useSupabase
     THEN /\ handlers' = handlers \cup {[rid |-> nreq + 1, pc |-> "saveCategory",
                                         arg |-> Stamp(c, now)]}
          /\ UNCHANGED <<categoriesStore, resp>>
     ELSE IF CacheCategoryThrows(categoriesStore)
     THEN /\ resp' = InternalError("upsertCategory", nreq + 1)
          /\ UNCHANGED <<categoriesStore, handlers>>
     ELSE /\ categoriesStore' = CacheCategory(categoriesStore, Stamp(c, now), TRUE)
          /\ resp' = AdminResp("upsertCategory", nreq + 1, 200, Stamp(c, now))
          /\ handlers' = handlers
  /\ UNCHANGED <<syncVars, envVars, productsStore, cloudProducts, cloudCategories,
                 promoVars>>

\* lines 121-131, 1250-1262: the backend write returns
SaveCategoryDone(h, outcome) ==
  /\ h \in handlers /\ h.pc = "saveCategory"
  /\ cloudCategories' = IF outcome = "ok" THEN CloudSave(cloudCategories, h.arg)
                        ELSE cloudCategories
  /\ IF CacheCategoryThrows(categoriesStore)
     THEN /\ categoriesStore' = categoriesStore
          /\ resp' = InternalError("upsertCategory", h.rid)
     ELSE /\ categoriesStore' = CacheCategory(categoriesStore, h.arg, outcome # "ok")
          /\ resp' = AdminResp("upsertCategory", h.rid, 200, h.arg)
  /\ handlers' = handlers \ {h}
  /\ UNCHANGED <<syncVars, envVars, productsStore, cloudProducts, nreq, req, promoVars>>

\* -------------------------------------- DELETE /api/admin/categories/:id
\* lines 148-151 (1277-1282): forEach over the values of categoriesStore,
\* each taken for an array; the first value that is a category raises a
\* TypeError, after the arrays before it have been cleaned
FirstCategory(m) == FindIndex([i \in 1..Len(m) |-> ~ IsArray(m[i].v)])

DeleteCategoryPass(m, id) ==
  [i \in 1..Len(m) |->
     IF FirstCategory(m) = 0 \/ i < FirstCategory(m)
     THEN [k |-> m[i].k, v |-> ArrayOf(RemoveFromList(m[i].v.array, id))]
     ELSE m[i]]

\* db.deleteCategory past the backend, then the handler's own pass
DeleteCategoryCache(m, id) ==
  IF FirstCategory(m) # 0 THEN DeleteCategoryPass(m, id)
  ELSE DeleteCategoryPass(DeleteCategoryPass(m, id), id)

DeleteCategoryResp(m, rid, id) ==
  IF FirstCategory(m) # 0 THEN InternalError("deleteCategory", rid)
  ELSE AdminResp("deleteCategory", rid, 200, id)

DeleteCategory(password, id) ==
  /\ req' = AdminReq("deleteCategory", password, id)
  /\ nreq' = nreq + 1
  /\ IF ~ CheckOwnerAuth(password)
     THEN /\ resp' = Unauthorized("deleteCategory")
          /\ UNCHANGED <<categoriesStore, handlers>>
     ELSE IF useSupabase
     THEN /\ handlers' = handlers \cup {[rid |-> nreq + 1, pc |-> "deleteCategory",
                                         arg |-> id]}
          /\ UNCHANGED <<categoriesStore, resp>>
     ELSE /\ categoriesStore' = DeleteCategoryCache(categoriesStore, id)
          /\ resp' = DeleteCategoryResp(categoriesStore, nreq + 1, id)
          /\ handlers' = handlers
  /\ UNCHANGED <<syncVars, envVars, productsStore, cloudProducts, cloudCategories,
                 promoVars>>

\* lines 142-147: the backend delete returns
DeleteCategoryDone(h, outcome) ==
  /\ h \in handlers /\ h.pc = "deleteCategory"
  /\ cloudCategories' = IF outcome = "ok" THEN CloudDelete(cloudCategories, h.arg)
                        ELSE cloudCategories
  /\ categoriesStore' = DeleteCategoryCache(categoriesStore, h.arg)
  /\ resp' = DeleteCategoryResp(categoriesStore, h.rid, h.arg)
  /\ handlers' = handlers \ {h}
  /\ UNCHANGED <<syncVars, envVars, productsStore, cloudProducts, nreq, req, promoVars>>

\* ------------------------------------------ POST /api/admin/promotions
\* lines 183-188 (when fallback) and 1331-1340
CachePromotion(m, promotion, fallback) ==
  MapSet(m, Num(1),
         CacheRecord(IF fallback THEN SaveInList(MapGetOr(m, Num(1), <<>>), promotion)
                     ELSE MapGetOr(m, Num(1), <<>>), promotion))

UpsertPromotion(password, promotion) ==
  /\ req' = AdminReq("upsertPromotion", password, Stamp(promotion, now))
  /\ nreq' = nreq + 1
  /\ IF ~ CheckOwnerAuth(password)
     THEN /\ resp' = Unauthorized("upsertPromotion")
          /\ UNCHANGED <<promotionsStore, handlers>>
     ELSE IF useSupabase
     THEN /\ handlers' = handlers \cup {[rid |-> nreq + 1, pc |-> "savePromotion",
                                         arg |-> Stamp(promotion, now)]}
          /\ UNCHANGED <<promotionsStore, resp>>
     ELSE /\ promotionsStore' = CachePromotion(promotionsStore, Stamp(promotion, now), TRUE)
          /\ resp' = AdminResp("upsertPromotion", nreq + 1, 200, Stamp(promotion, now))
          /\ handlers' = handlers
  /\ UNCHANGED <<syncVars, envVars, productsStore, categoriesStore, cloudProducts,
                 cloudCategories, cloudPromotions>>

\* lines 171-181, 1331-1343: the backend write returns
SavePromotionDone(h, outcome) ==
  /\ h \in handlers /\ h.pc = "savePromotion"
  /\ cloudPromotions' = IF outcome = "ok" THEN CloudSave(cloudPromotions, h.arg)
                        ELSE cloudPromotions
  /\ promotionsStore' = CachePromotion(promotionsStore, h.arg, outcome # "ok")
  /\ resp' = AdminResp("upsertPromotion", h.rid, 200, h.arg)
  /\ handlers' = handlers \ {h}
  /\ UNCHANGED <<syncVars, envVars, productsStore, categoriesStore, cloudProducts,
                 cloudCategories, nreq, req>>

\* -------------------------------------- DELETE /api/admin/promotions/:id
\* lines 197-200 in db.deletePromotion, then lines 1359-1364 in the handler
DeletePromotionCache(m, id) == RemoveFromAll(RemoveFromAll(m, id), id)

DeletePromotion(password, id) ==
  /\ req' = AdminReq("deletePromotion", password, id)
  /\ nreq' = nreq + 1
  /\ IF ~ CheckOwnerAuth(password)
     THEN /\ resp' = Unauthorized("deletePromotion")
          /\ UNCHANGED <<promotionsStore, handlers>>
     ELSE IF useSupabase
     THEN /\ handlers' = handlers \cup {[rid |-> nreq + 1, pc |-> "deletePromotion",
                                         arg |-> id]}
          /\ UNCHANGED <<promotionsStore, resp>>
     ELSE /\ promotionsStore' = DeletePromotionCache(promotionsStore, id)
          /\ resp' = AdminResp("deletePromotion", nreq + 1, 200, id)
          /\ handlers' = handlers
  /\ UNCHANGED <<syncVars, envVars, productsStore, categoriesStore, cloudProducts,
                 cloudCategories, cloudPromotions>>

\* lines 191-196: the backend delete returns
DeletePromotionDone(h, outcome) ==
  /\ h \in handlers /\ h.pc = "deletePromotion"
  /\ cloudPromotions' = IF outcome = "ok" THEN CloudDelete(cloudPromotions, h.arg)
                        ELSE cloudPromotions
  /\ promotionsStore' = DeletePromotionCache(promotionsStore, h.arg)
  /\ resp' = AdminResp("deletePromotion", h.rid, 200, h.arg)
  /\ handlers' = handlers \ {h}
  /\ UNCHANGED <<syncVars, envVars, productsStore, categoriesStore, cloudProducts,
                 cloudCategories, nreq, req>>

\* ------------------------------------------------- admin deletions
\* Without a backend the owner creates, updates and deletes products and
\* promotions.
AdminProducts == [id : 1..MaxAdminId, barcode : 1..MaxAdminCode, sku : {0},
                  price : {1}]
Promotions == [id : 0..MaxPromoId, name : 1..MaxName]

InitDelete == InitReport

DelUpsertProduct ==
  /\ nreq < MaxDeleteReqs
  /\ \E p \in AdminProducts : UpsertProduct(OWNER_PASSWORD, p)
  /\ UNCHANGED histVars

DelDeleteProduct ==
  /\ nreq < MaxDeleteReqs
  /\ \E id \in 1..MaxAdminId : DeleteProduct(OWNER_PASSWORD, id)
  /\ UNCHANGED histVars

DelUpsertPromotion ==
  /\ nreq < MaxDeleteReqs
  /\ \E promotion \in Promotions : UpsertPromotion(OWNER_PASSWORD, promotion)
  /\ UNCHANGED histVars

DelDeletePromotion ==
  /\ nreq < MaxDeleteReqs
  /\ \E id \in 1..MaxPromoId : DeletePromotion(OWNER_PASSWORD, id)
  /\ UNCHANGED histVars

NextDelete ==
  DelUpsertProduct \/ DelDeleteProduct \/ DelUpsertPromotion \/ DelDeletePromotion

SpecDelete == InitDelete /\ [][NextDelete]_vars

\* ---------------------------------------------- admin product writes
\* With or without the backend, stores push single products to the master
\* catalog and to another store, the owner creates, updates and deletes
\* products and promotions, and a store pulls the master catalog.
\* history: the catalog write answered last, with the outcome of its
\* backend call ("none" without a backend) and the status of its answer
WriteDone(op, rid, arg, backend, status) ==
  [op |-> op, rid |-> rid, arg |-> arg, backend |-> backend, status |-> status]

MasterProducts == {p \in Products : p.sku = 0}

InitAdmin == InitCatalog

AdmPushCatalog ==
  /\ nreq < MaxAdminReqs
  /\ Cardinality(handlers) < MaxInFlight
  /\ \E storeId \in {Num(1), Num(MaxStore)} :
       \E p \in {q \in MasterProducts : q.id # 0 /\ q.price = 1} :
         PushCatalog(storeId, <<p>>, <<>>, FALSE)
  /\ lastWrite' = WriteDone("pushCatalog", nreq + 1, 0, "none", 200)
  /\ UNCHANGED <<saleLog, catLog, lastPushed, pushLog, lastCategory, chunkLog>>

AdmUpsertProduct ==
  /\ nreq < MaxAdminReqs
  /\ Cardinality(handlers) < MaxInFlight
  /\ \E p \in MasterProducts :
       /\ UpsertProduct(OWNER_PASSWORD, p)
       /\ lastWrite' = IF useSupabase THEN lastWrite
                       ELSE WriteDone("upsertProduct", nreq + 1, Stamp(p, now),
                                      "none", resp'.status)
  /\ UNCHANGED <<saleLog, catLog, lastPushed, pushLog, lastCategory, chunkLog>>

AdmDeleteProduct ==
  /\ nreq < MaxAdminReqs
  /\ Cardinality(handlers) < MaxInFlight
  /\ \E id \in 1..MaxProdId :
       /\ DeleteProduct(OWNER_PASSWORD, id)
       /\ lastWrite' = IF useSupabase THEN lastWrite
                       ELSE WriteDone("deleteProduct", nreq + 1, id, "none",
                                      resp'.status)
  /\ UNCHANGED <<saleLog, catLog, lastPushed, pushLog, lastCategory, chunkLog>>

AdmUpsertPromotion ==
  /\ nreq < MaxAdminReqs
  /\ Cardinality(handlers) < MaxInFlight
  /\ \E promotion \in Promotions :
       /\ UpsertPromotion(OWNER_PASSWORD, promotion)
       /\ lastWrite' = IF useSupabase THEN lastWrite
                       ELSE WriteDone("upsertPromotion", nreq + 1,
                                      Stamp(promotion, now), "none", resp'.status)
  /\ UNCHANGED <<saleLog, catLog, lastPushed, pushLog, lastCategory, chunkLog>>

AdmSaveProductDone ==
  /\ \E h \in handlers : \E outcome \in Outcomes :
       /\ SaveProductDone(h, outcome)
       /\ lastWrite' = WriteDone("upsertProduct", h.rid, h.arg, outcome, resp'.status)
  /\ UNCHANGED <<saleLog, catLog, lastPushed, pushLog, lastCategory, chunkLog>>

AdmDeleteProductDone ==
  /\ \E h \in handlers : \E outcome \in Outcomes :
       /\ DeleteProductDone(h, outcome)
       /\ lastWrite' = WriteDone("deleteProduct", h.rid, h.arg, outcome, resp'.status)
  /\ UNCHANGED <<saleLog, catLog, lastPushed, pushLog, lastCategory, chunkLog>>

AdmSavePromotionDone ==
  /\ \E h \in handlers : \E outcome \in Outcomes :
       /\ SavePromotionDone(h, outcome)
       /\ lastWrite' = WriteDone("upsertPromotion", h.rid, h.arg, outcome, resp'.status)
  /\ UNCHANGED <<saleLog, catLog, lastPushed, pushLog, lastCategory, chunkLog>>

AdmPull ==
  /\ PullCatalog(Absent)
  /\ UNCHANGED histVars

NextAdmin ==
  AdmPushCatalog \/ AdmUpsertProduct \/ AdmDeleteProduct \/ AdmUpsertPromotion
  \/ AdmSaveProductDone \/ AdmDeleteProductDone \/ AdmSavePromotionDone
  \/ DoChunkDone \/ AdmPull

SpecAdmin == InitAdmin /\ [][NextAdmin]_vars

\* --------------------------------------------- admin category writes
\* With or without the backend, a store pushes categories to the catalog,
\* the owner creates, updates and deletes categories, and a store pulls.
AdminCategories == [id : 0..MaxCategoryId, name : 1..MaxCatName]

PushedCategories == {c \in AdminCategories : c.id # 0}

InitCategories == InitCatalog

CgPushCatalog ==
  /\ nreq < MaxCategoryReqs
  /\ Cardinality(handlers) < MaxInFlight
  /\ \E c \in PushedCategories :
       /\ PushCatalog(Num(1), <<>>, <<c>>, FALSE)
       /\ lastCategory' = NoteCategories(lastCategory, <<c>>)
  /\ lastWrite' = WriteDone("pushCatalog", nreq + 1, 0, "none", 200)
  /\ UNCHANGED <<saleLog, catLog, lastPushed, pushLog, chunkLog>>

CgUpsertCategory ==
  /\ nreq < MaxCategoryReqs
  /\ Cardinality(handlers) < MaxInFlight
  /\ \E c \in AdminCategories :
       /\ UpsertCategory(OWNER_PASSWORD, c)
       /\ lastWrite' = IF useSupabase THEN lastWrite
                       ELSE WriteDone("upsertCategory", nreq + 1, Stamp(c, now),
                                      "none", resp'.status)
  /\ UNCHANGED <<saleLog, catLog, lastPushed, pushLog, lastCategory, chunkLog>>

CgDeleteCategory ==
  /\ nreq < MaxCategoryReqs
  /\ Cardinality(handlers) < MaxInFlight
  /\ \E id \in 1..MaxCategoryId :
       /\ DeleteCategory(OWNER_PASSWORD, id)
       /\ lastWrite' = IF useSupabase THEN lastWrite
                       ELSE WriteDone("deleteCategory", nreq + 1, id, "none",
                                      resp'.status)
  /\ UNCHANGED <<saleLog, catLog, lastPushed, pushLog, lastCategory, chunkLog>>

CgSaveCategoryDone ==
  /\ \E h \in handlers : \E outcome \in Outcomes :
       /\ SaveCategoryDone(h, outcome)
       /\ lastWrite' = WriteDone("upsertCategory", h.rid, h.arg, outcome, resp'.status)
  /\ UNCHANGED <<saleLog, catLog, lastPushed, pushLog, lastCategory, chunkLog>>

CgDeleteCategoryDone ==
  /\ \E h \in handlers : \E outcome \in Outcomes :
       /\ DeleteCategoryDone(h, outcome)
       /\ lastWrite' = WriteDone("deleteCategory", h.rid, h.arg, outcome, resp'.status)
  /\ UNCHANGED <<saleLog, catLog, lastPushed, pushLog, lastCategory, chunkLog>>

NextCategories ==
  CgPushCatalog \/ CgUpsertCategory \/ CgDeleteCategory \/ CgSaveCategoryDone
  \/ CgDeleteCategoryDone \/ DoCatDone \/ AdmPull

SpecCategories == InitCategories /\ [][NextCategories]_vars

\* ------------------------------------------------------- the auth gate
\* With or without the backend, a store pushes a sale and registers, and the
\* owner's panel sends every report and every admin request with the
\* password in the header, in the query, in both or in neither.
AuthProduct == [id |-> 1, barcode |-> 1, sku |-> 0, price |-> 1]
AuthCategory == [id |-> 2, name |-> 1]
AuthPromotion == [id |-> 1, name |-> 1]
AuthSale == [sale_number |-> 1, total |-> 1, created_at |-> 1, timestamp |-> 0]

\* the passwords checkOwnerAuth gets to see
SuppliedPasswords ==
  {SuppliedPassword(header, query) : header \in Passwords, query \in Passwords}

InitAuth == InitCatalog

AuthPush ==
  /\ TotalRecords(salesStore) = 0
  /\ Push(Num(1), SalesArray(<<AuthSale>>))
  /\ UNCHANGED histVars

AuthUpsertProduct ==
  /\ nreq < MaxAuthReqs
  /\ \E password \in SuppliedPasswords :
       UpsertProduct(password, AuthProduct)
  /\ UNCHANGED histVars

AuthDeleteProduct ==
  /\ nreq < MaxAuthReqs
  /\ \E password \in SuppliedPasswords :
       DeleteProduct(password, AuthProduct.id)
  /\ UNCHANGED histVars

AuthUpsertCategory ==
  /\ nreq < MaxAuthReqs
  /\ \E password \in SuppliedPasswords :
       UpsertCategory(password, AuthCategory)
  /\ UNCHANGED histVars

AuthDeleteCategory ==
  /\ nreq < MaxAuthReqs
  /\ \E password \in SuppliedPasswords :
       DeleteCategory(password, AuthCategory.id)
  /\ UNCHANGED histVars

AuthUpsertPromotion ==
  /\ nreq < MaxAuthReqs
  /\ \E password \in SuppliedPasswords :
       UpsertPromotion(password, AuthPromotion)
  /\ UNCHANGED histVars

AuthDeletePromotion ==
  /\ nreq < MaxAuthReqs
  /\ \E password \in SuppliedPasswords :
       DeletePromotion(password, AuthPromotion.id)
  /\ UNCHANGED histVars

\* a backend call of an admin request returns
AuthBackendDone ==
  /\ \E h \in handlers : \E outcome \in Outcomes :
       \/ SaveProductDone(h, outcome)
       \/ DeleteProductDone(h, outcome)
       \/ SaveCategoryDone(h, outcome)
       \/ DeleteCategoryDone(h, outcome)
       \/ SavePromotionDone(h, outcome)
       \/ DeletePromotionDone(h, outcome)
  /\ UNCHANGED histVars

AuthReport ==
  /\ \E password \in SuppliedPasswords :
       \/ ConsolidatedReport(password, NoDay, NoDay)
       \/ StoreStatus(password)
       \/ StoreDetail(password, Str(1), NoDay, NoDay, NoCount)
       \/ Compare(password, CountOf(1))
  /\ UNCHANGED histVars

NextAuth ==
  AuthPush \/ DoRegisterStore \/ AuthUpsertProduct \/ AuthDeleteProduct
  \/ AuthUpsertCategory \/ AuthDeleteCategory \/ AuthUpsertPromotion
  \/ AuthDeletePromotion \/ AuthBackendDone \/ AuthReport

SpecAuth == InitAuth /\ [][NextAuth]_vars

\* ------------------------------------------------- records without id
\* With or without the backend, the owner creates products, categories and
\* promotions without id while the clock (Date.now(), in ms) goes on or not.
Tick ==
  /\ now < MaxNow
  /\ now' = now + 1
  /\ UNCHANGED <<syncVars, catVars, useSupabase, req, resp, histVars>>

InitCreate == InitCatalog

CrUpsertProduct ==
  /\ nreq < MaxCreateReqs
  /\ \E price \in 1..MaxPrice :
       UpsertProduct(OWNER_PASSWORD, [id |-> 0, barcode |-> 0, sku |-> 0, price |-> price])
  /\ UNCHANGED histVars

CrUpsertCategory ==
  /\ nreq < MaxCreateReqs
  /\ \E name \in 1..MaxCatName : UpsertCategory(OWNER_PASSWORD, [id |-> 0, name |-> name])
  /\ UNCHANGED histVars

CrUpsertPromotion ==
  /\ nreq < MaxCreateReqs
  /\ \E name \in 1..MaxCatName : UpsertPromotion(OWNER_PASSWORD, [id |-> 0, name |-> name])
  /\ UNCHANGED histVars

CrSaveDone ==
  /\ \E h \in handlers : \E outcome \in Outcomes :
       \/ SaveProductDone(h, outcome)
       \/ SaveCategoryDone(h, outcome)
       \/ SavePromotionDone(h, outcome)
  /\ UNCHANGED histVars

NextCreate == Tick \/ CrUpsertProduct \/ CrUpsertCategory \/ CrUpsertPromotion \/ CrSaveDone

SpecCreate == InitCreate /\ [][NextCreate]_vars

\* ----------------------------------------------------- report figures
\* Stores push sales one at a time, or an empty batch, and register, while
\* the owner reads the consolidated report over every range and the store
\* list; the sales are dated before, on and after the day of the clock.
FigSales == [sale_number : 1..MaxSaleNo, total : 1..MaxSaleNo,
             created_at : 0..MaxFigTime, timestamp : {0}]

InitFigures ==
  /\ salesStore = <<>>
  /\ stores = <<>>
  /\ productsStore = <<>>
  /\ categoriesStore = <<>>
  /\ promotionsStore = <<>>
  /\ cloudPromotions = <<>>
  /\ cloudProducts = <<>>
  /\ cloudCategories = <<>>
  /\ handlers = {}
  /\ nreq = 0
  /\ useSupabase = FALSE
  /\ now \in DayLen..MaxFigNow
  /\ req = NoReq
  /\ resp = NoResp
  /\ saleLog = <<>>
  /\ catLog = <<>>
  /\ lastPushed = <<>>
  /\ pushLog = {}
  /\ lastCategory = <<>>
  /\ chunkLog = <<>>
  /\ lastWrite = NoWrite

FigPush ==
  /\ TotalRecords(salesStore) < MaxFigRecords
  /\ \E storeId \in {Num(n) : n \in 1..MaxStore} :
       \E b \in SeqsUpTo({sale \in FigSales : sale.total = sale.sale_number}, 1) :
         Push(storeId, SalesArray(b))
  /\ UNCHANGED histVars

FigReport ==
  /\ \E startDate \in DayQueries : \E endDate \in DayQueries :
       ConsolidatedReport(OWNER_PASSWORD, startDate, endDate)
  /\ UNCHANGED histVars

FigStoreStatus ==
  /\ StoreStatus(OWNER_PASSWORD)
  /\ UNCHANGED histVars

NextFigures == FigPush \/ DoRegisterStore \/ FigReport \/ FigStoreStatus

SpecFigures == InitFigures /\ [][NextFigures]_vars

\* ------------------------------------------- store detail and comparison
\* Stores push dated sales one at a time, under a numeric id or under the
\* same id written as a string, while the owner reads one store's sales
\* and the day-by-day comparison.
DetailPush ==
  /\ TotalRecords(salesStore) < MaxDetailRecords
  /\ \E storeId \in {Num(n) : n \in 1..MaxStore} \cup {Str(1)} :
       \E sale \in {x \in FigSales : x.total = x.sale_number} :
         Push(storeId, SalesArray(<<sale>>))
  /\ UNCHANGED histVars

DetailStoreDetail ==
  /\ \E n \in 1..MaxStore :
       \E startDate \in DayQueries : \E endDate \in DayQueries :
         \E limit \in {NoCount} \cup {CountOf(k) : k \in 1..MaxLimit} :
           StoreDetail(OWNER_PASSWORD, Str(n), startDate, endDate, limit)
  /\ UNCHANGED histVars

DetailCompare ==
  /\ \E period \in {NoCount} \cup {CountOf(k) : k \in 1..MaxPeriod} :
       Compare(OWNER_PASSWORD, period)
  /\ UNCHANGED histVars

NextDetail == DetailPush \/ DetailStoreDetail \/ DetailCompare

SpecDetail == InitFigures /\ [][NextDetail]_vars

\* ------------------------------------------------------------- reads
\* the table a get operation of the adapter reads, and its cache
Tables == {"products", "categories", "promotions"}

\* lines 61-64, 115-117, 166: the lists of the cache, one after the other
MemoryRows(table) ==
  IF table = "categories"
  THEN ConcatAll([i \in 1..Len(categoriesStore) |->
                    IF IsArray(categoriesStore[i].v) THEN categoriesStore[i].v.array
                    ELSE <<>>])
  ELSE ConcatAll(MapValues(IF table = "products" THEN productsStore
                           ELSE promotionsStore))

\* all.push(...cats) on a category that PushCatalog stored under its id is
\* a TypeError (an object is not iterable), outside the try block
MemoryThrows(table) ==
  table = "categories" /\ \E i \in 1..Len(categoriesStore) : ~ IsArray(categoriesStore[i].v)

GetFromMemory(table, rid) ==
  IF MemoryThrows(table)
  THEN [op |-> "get", table |-> table, rid |-> rid, returned |-> FALSE]
  ELSE [op |-> "get", table |-> table, rid |-> rid, returned |-> TRUE,
        source |-> "memory", rows |-> MemoryRows(table)]

\* select('*'): the rows of the backend's table
CloudRows(table) ==
  MapValues(IF table = "products" THEN cloudProducts
            ELSE IF table = "categories" THEN cloudCategories
            ELSE cloudPromotions)

GetResult(table, rid, source, rows) ==
  [op |-> "get", table |-> table, rid |-> rid, returned |-> TRUE,
   source |-> source, rows |-> rows]

\* db.getProducts, db.getCategories, db.getPromotions (lines 51-65, 105-118,
\* 156-167) up to the backend call; without a backend the cache is returned
DbGet(table) ==
  /\ req' = AdminReq("get", "none", table)
  /\ nreq' = nreq + 1
  /\ IF useSupabase
     THEN /\ handlers' = handlers \cup {[rid |-> nreq + 1, pc |-> "get", arg |-> table]}
          /\ UNCHANGED resp
     ELSE /\ resp' = GetFromMemory(table, nreq + 1)
          /\ handlers' = handlers
  /\ UNCHANGED <<syncVars, envVars, productsStore, categoriesStore, cloudProducts,
                 cloudCategories, promoVars>>

\* the select returns: on an error value the adapter throws it itself, the
\* catch logs, and the cache is returned
DbGetDone(h, outcome) ==
  /\ h \in handlers /\ h.pc = "get"
  /\ resp' = IF outcome = "ok" THEN GetResult(h.arg, h.rid, "supabase", CloudRows(h.arg))
             ELSE GetFromMemory(h.arg, h.rid)
  /\ handlers' = handlers \ {h}
  /\ UNCHANGED <<syncVars, envVars, productsStore, categoriesStore, cloudProducts,
                 cloudCategories, promoVars, nreq, req>>

\* ---------------------------------------------- GET /api/admin/products
\* p.id || p.barcode || p.sku as a Map key; an id and a barcode are values
\* of different types and never the same key
ListingKey(p) ==
  IF p.id # 0 THEN [of |-> "id", v |-> p.id]
  ELSE IF p.barcode # 0 THEN [of |-> "barcode", v |-> p.barcode]
  ELSE [of |-> "sku", v |-> p.sku]

\* lines 1095-1104: the first record under each key, over the lists of the
\* cache in order, with the store it was found under
RECURSIVE ProductsMap(_, _)
ProductsMap(entries, acc) ==
  IF entries = <<>> THEN acc
  ELSE LET e == Head(entries)
           key == ListingKey(e.p)
       IN ProductsMap(Tail(entries),
                      IF key.v # 0 /\ ~ MapHas(acc, key)
                      THEN MapSet(acc, key,
                                  [f \in DOMAIN e.p \cup {"source_store_id"} |->
                                     IF f = "source_store_id" THEN e.storeId
                                     ELSE e.p[f]])
                      ELSE acc)

CachedProducts(ps) ==
  ConcatAll([i \in 1..Len(ps) |->
               [j \in 1..Len(ps[i].v) |-> [storeId |-> ps[i].k, p |-> ps[i].v[j]]]])

\* Math.ceil(total / limit), 1 without a limit
TotalPages(total, limit) ==
  IF limit > 0 THEN (total + limit - 1) \div limit ELSE 1

\* the answer with the first page of rows, lines 1077-1084 and 1127-1134
ListingAnswer(op, rid, rows, limit, source) ==
  [op |-> op, rid |-> rid, status |-> 200,
   rows |-> IF limit > 0 THEN Take(rows, limit) ELSE rows,
   total |-> Len(rows), limit |-> limit,
   totalPages |-> TotalPages(Len(rows), limit), source |-> source]

MemoryProducts(ps) == MapValues(ProductsMap(CachedProducts(ps), <<>>))

\* lines 1048-1141 for page 1 and no search, up to the backend query
ListProducts(password, limit) ==
  /\ req' = AdminReq("listProducts", password, limit)
  /\ nreq' = nreq + 1
  /\ IF ~ CheckOwnerAuth(password)
     THEN /\ resp' = Unauthorized("listProducts")
          /\ handlers' = handlers
     ELSE IF useSupabase
     THEN /\ handlers' = handlers \cup {[rid |-> nreq + 1, pc |-> "listProducts",
                                         arg |-> limit]}
          /\ UNCHANGED resp
     ELSE /\ resp' = ListingAnswer("listProducts", nreq + 1,
                                   MemoryProducts(productsStore), limit, "memory")
          /\ handlers' = handlers
  /\ UNCHANGED <<syncVars, envVars, productsStore, categoriesStore, cloudProducts,
                 cloudCategories, promoVars>>

\* lines 1073-1090: the query returns; an error value is logged, a throw is
\* caught by the inner catch, and both go on to the cache
ListProductsDone(h, outcome) ==
  /\ h \in handlers /\ h.pc = "listProducts"
  /\ resp' = IF outcome = "ok"
             THEN ListingAnswer("listProducts", h.rid, MapValues(cloudProducts),
                                h.arg, "supabase")
             ELSE ListingAnswer("listProducts", h.rid,
                                MemoryProducts(productsStore), h.arg, "memory")
  /\ handlers' = handlers \ {h}
  /\ UNCHANGED <<syncVars, envVars, productsStore, categoriesStore, cloudProducts,
                 cloudCategories, promoVars, nreq, req>>

\* -------------------------------------------- GET /api/admin/promotions
\* lines 1292-1298, up to the backend query
ListPromotions(password) ==
  /\ req' = AdminReq("listPromotions", password, 0)
  /\ nreq' = nreq + 1
  /\ IF ~ CheckOwnerAuth(password)
     THEN /\ resp' = Unauthorized("listPromotions")
          /\ handlers' = handlers
     ELSE IF useSupabase
     THEN /\ handlers' = handlers \cup {[rid |-> nreq + 1, pc |-> "listPromotions",
                                         arg |-> 0]}
          /\ UNCHANGED resp
     ELSE /\ resp' = ListingAnswer("listPromotions", nreq + 1,
                                   MemoryRows("promotions"), 0, "memory")
          /\ handlers' = handlers
  /\ UNCHANGED <<syncVars, envVars, productsStore, categoriesStore, cloudProducts,
                 cloudCategories, promoVars>>

\* lines 1300-1313: the query returns; an error value leads on to the cache,
\* a throw leaves the try block for the catch of line 1310
ListPromotionsDone(h, outcome) ==
  /\ h \in handlers /\ h.pc = "listPromotions"
  /\ resp' = IF outcome = "ok"
             THEN ListingAnswer("listPromotions", h.rid, MapValues(cloudPromotions),
                                0, "supabase")
             ELSE IF outcome = "error"
             THEN ListingAnswer("listPromotions", h.rid, MemoryRows("promotions"),
                                0, "memory")
             ELSE [op |-> "listPromotions", rid |-> h.rid, status |-> 500]
  /\ handlers' = handlers \ {h}
  /\ UNCHANGED <<syncVars, envVars, productsStore, categoriesStore, cloudProducts,
                 cloudCategories, promoVars, nreq, req>>

\* With or without the backend the owner saves products, a category and a
\* promotion, a store pushes a category, and the catalog is read through
\* the adapter and through the admin listings; every backend call ends
\* well, with an error value or by a throw.
\* history: the read answered last and how its backend call ended
ReadDone(op, rid, backend) == [op |-> op, rid |-> rid, backend |-> backend]

ReadProducts == {[id |-> i, barcode |-> 1, sku |-> 0, price |-> 1] : i \in 0..1}

ReadUpsertProduct ==
  /\ nreq < MaxReadReqs
  /\ Cardinality(handlers) < MaxInFlight
  /\ \E p \in ReadProducts : UpsertProduct(OWNER_PASSWORD, p)
  /\ UNCHANGED histVars

ReadUpsertPromotion ==
  /\ nreq < MaxReadReqs
  /\ Cardinality(handlers) < MaxInFlight
  /\ UpsertPromotion(OWNER_PASSWORD, AuthPromotion)
  /\ UNCHANGED histVars

ReadUpsertCategory ==
  /\ nreq < MaxReadReqs
  /\ Cardinality(handlers) < MaxInFlight
  /\ UpsertCategory(OWNER_PASSWORD, AuthCategory)
  /\ UNCHANGED histVars

\* a store pushes a category and no product
ReadPushCategory ==
  /\ nreq < MaxReadReqs
  /\ Cardinality(handlers) < MaxInFlight
  /\ PushCatalog(Num(1), <<>>, <<AuthCategory>>, FALSE)
  /\ UNCHANGED histVars

ReadSaveDone ==
  /\ \E h \in handlers : \E outcome \in Outcomes :
       \/ SaveProductDone(h, outcome)
       \/ SaveCategoryDone(h, outcome)
       \/ SavePromotionDone(h, outcome)
       \/ CatDone(h, outcome)
  /\ UNCHANGED histVars

ReadDbGet ==
  /\ nreq < MaxReadReqs
  /\ Cardinality(handlers) < MaxInFlight
  /\ \E table \in Tables : DbGet(table)
  /\ lastWrite' = IF useSupabase THEN lastWrite ELSE ReadDone("get", nreq + 1, "none")
  /\ UNCHANGED <<saleLog, catLog, lastPushed, pushLog, lastCategory, chunkLog>>

ReadListProducts ==
  /\ nreq < MaxReadReqs
  /\ Cardinality(handlers) < MaxInFlight
  /\ \E limit \in 0..MaxLimit : ListProducts(OWNER_PASSWORD, limit)
  /\ lastWrite' = IF useSupabase THEN lastWrite
                  ELSE ReadDone("listProducts", nreq + 1, "none")
  /\ UNCHANGED <<saleLog, catLog, lastPushed, pushLog, lastCategory, chunkLog>>

ReadListPromotions ==
  /\ nreq < MaxReadReqs
  /\ Cardinality(handlers) < MaxInFlight
  /\ ListPromotions(OWNER_PASSWORD)
  /\ lastWrite' = IF useSupabase THEN lastWrite
                  ELSE ReadDone("listPromotions", nreq + 1, "none")
  /\ UNCHANGED <<saleLog, catLog, lastPushed, pushLog, lastCategory, chunkLog>>

ReadBackendDone ==
  /\ \E h \in handlers : \E outcome \in Outcomes :
       /\ \/ DbGetDone(h, outcome)
          \/ ListProductsDone(h, outcome)
          \/ ListPromotionsDone(h, outcome)
       /\ lastWrite' = ReadDone(resp'.op, h.rid, outcome)
  /\ UNCHANGED <<saleLog, catLog, lastPushed, pushLog, lastCategory, chunkLog>>

NextRead ==
  \/ ReadUpsertProduct \/ ReadUpsertCategory \/ ReadUpsertPromotion
  \/ ReadPushCategory \/ ReadSaveDone
  \/ ReadDbGet \/ ReadListProducts \/ ReadListPromotions \/ ReadBackendDone

SpecRead == InitCatalog /\ [][NextRead]_vars

\* ------------------------------------------------ db.loadInitialData
\* The load is started with the module and not awaited (line 326): it is a
\* handler of its own, [pc |-> "load", arg |-> the table it is reading,
\* answered |-> whether the backend has evaluated the select, rows |-> the
\* rows it found], suspended while the requests are handled.
LoadTables == <<"products", "categories", "promotions", "stores", "sales">>

LoadOf(table) ==
  [rid |-> 0, pc |-> "load", arg |-> table, answered |-> FALSE, rows |-> <<>>]

LoadInFlight == \E h \in handlers : h.pc = "load"

\* the backend's rows of a table; the server writes neither stores nor
\* sales to the backend, and these two tables are taken to be empty
LoadCloudRows(table) ==
  IF table \in {"stores", "sales"} THEN <<>> ELSE CloudRows(table)

\* what the get operation falls back to, lines 61-64, 115-117, 166, 218-222, 256
LoadMemoryRows(table) ==
  IF table = "stores" THEN MapValues(stores)
  ELSE IF table = "sales" THEN ConcatAll(MapValues(salesStore))
  ELSE MemoryRows(table)

\* lines 305-306: storesList.forEach(s => stores.set(s.id, s))
RECURSIVE LoadStores(_, _)
LoadStores(reg, rows) ==
  IF rows = <<>> THEN reg
  ELSE LoadStores(MapSet(reg, Head(rows).id, Head(rows)), Tail(rows))

\* lines 310-315: each sale is appended to the ledger of s.store_id || 1; a
\* sale as a store pushes it carries no store_id
RECURSIVE LoadSales(_, _)
LoadSales(m, rows) ==
  IF rows = <<>> THEN m
  ELSE LoadSales(MapSet(m, Num(1), Append(MapGetOr(m, Num(1), <<>>), Head(rows))),
                 Tail(rows))

\* the backend evaluates the select of the load
LoadSelect(h) ==
  /\ h \in handlers /\ h.pc = "load" /\ ~ h.answered
  /\ handlers' = (handlers \ {h}) \cup
                   {[h EXCEPT !.answered = TRUE, !.rows = LoadCloudRows(h.arg)]}
  /\ UNCHANGED <<syncVars, envVars, productsStore, categoriesStore, cloudProducts,
                 cloudCategories, promoVars, nreq, req, resp>>

\* lines 281-321: a get operation of the load returns, with the backend's
\* rows or, after a failure, with the lists of the cache; a non-empty
\* result is set as the list under the key 1 (products, categories,
\* promotions) or merged (stores, sales), and the load goes on to its next
\* table; a throw of the get operation ends the load (line 319)
LoadDone(h, outcome) ==
  LET table == h.arg
      data == IF outcome = "ok" THEN h.rows ELSE LoadMemoryRows(table)
      thrown == outcome # "ok" /\ MemoryThrows(table)
      set(t) == ~ thrown /\ table = t /\ Len(data) > 0
      next == {LoadOf(LoadTables[i + 1]) :
                 i \in {j \in 1..(Len(LoadTables) - 1) : LoadTables[j] = table}}
  IN /\ h \in handlers /\ h.pc = "load"
     /\ outcome = "ok" => h.answered
     /\ productsStore' = IF set("products") THEN MapSet(productsStore, Num(1), data)
                         ELSE productsStore
     /\ categoriesStore' = IF set("categories")
                           THEN MapSet(categoriesStore, Num(1), ArrayOf(data))
                           ELSE categoriesStore
     /\ promotionsStore' = IF set("promotions") THEN MapSet(promotionsStore, Num(1), data)
                           ELSE promotionsStore
     /\ stores' = IF set("stores") THEN LoadStores(stores, data) ELSE stores
     /\ salesStore' = IF set("sales") THEN LoadSales(salesStore, data) ELSE salesStore
     /\ handlers' = (handlers \ {h}) \cup (IF thrown THEN {} ELSE next)
     /\ UNCHANGED <<envVars, cloudProducts, cloudCategories, cloudPromotions, nreq,
                    req, resp>>

\* The server starts with the backend configured, which holds the products
\* of an earlier run or none; while the load is suspended and after it,
\* store 1 pushes a product and the owner saves another.
\* history: pushLog holds the ids of the products of the writes answered
\* with success while the load was in flight
LoadedProduct == [id |-> 3, barcode |-> 3, sku |-> 0, price |-> 1,
                  store_id |-> Num(1), updated_at |-> 0]
PushedProduct == [id |-> 1, barcode |-> 1, sku |-> 0, price |-> 1]
SavedProduct == [id |-> 2, barcode |-> 2, sku |-> 0, price |-> 1]

InitLoad ==
  /\ salesStore = <<>>
  /\ stores = <<>>
  /\ productsStore = <<>>
  /\ categoriesStore = <<>>
  /\ promotionsStore = <<>>
  /\ cloudPromotions = <<>>
  /\ cloudProducts \in {<<>>, CloudSave(<<>>, LoadedProduct)}
  /\ cloudCategories = <<>>
  /\ handlers = {LoadOf(LoadTables[1])}
  /\ nreq = 0
  /\ useSupabase = TRUE
  /\ now = 1
  /\ req = NoReq
  /\ resp = NoResp
  /\ saleLog = <<>>
  /\ catLog = <<>>
  /\ lastPushed = <<>>
  /\ pushLog = {}
  /\ lastCategory = <<>>
  /\ chunkLog = <<>>
  /\ lastWrite = NoWrite

RequestsInFlight == Cardinality({h \in handlers : h.pc # "load"})

LdSelect ==
  /\ \E h \in handlers : LoadSelect(h)
  /\ UNCHANGED histVars

LdLoadDone ==
  /\ \E h \in handlers : \E outcome \in Outcomes : LoadDone(h, outcome)
  /\ UNCHANGED histVars

LdPushCatalog ==
  /\ nreq < MaxLoadReqs
  /\ RequestsInFlight < MaxInFlight
  /\ PushCatalog(Num(1), <<PushedProduct>>, <<>>, FALSE)
  /\ UNCHANGED histVars

LdChunkDone ==
  /\ \E h \in handlers : \E outcome \in Outcomes :
       /\ ChunkDone(h, outcome)
       /\ pushLog' = IF LoadInFlight /\ h \notin handlers'
                     THEN pushLog \cup {h.products[i].id : i \in 1..Len(h.products)}
                     ELSE pushLog
  /\ UNCHANGED <<saleLog, catLog, lastPushed, catHist>>

LdUpsertProduct ==
  /\ nreq < MaxLoadReqs
  /\ RequestsInFlight < MaxInFlight
  /\ UpsertProduct(OWNER_PASSWORD, SavedProduct)
  /\ UNCHANGED histVars

LdSaveProductDone ==
  /\ \E h \in handlers : \E outcome \in Outcomes :
       /\ SaveProductDone(h, outcome)
       /\ pushLog' = IF LoadInFlight THEN pushLog \cup {h.arg.id} ELSE pushLog
  /\ UNCHANGED <<saleLog, catLog, lastPushed, catHist>>

NextLoad ==
  \/ LdSelect \/ LdLoadDone \/ LdPushCatalog \/ LdChunkDone
  \/ LdUpsertProduct \/ LdSaveProductDone

SpecLoad == InitLoad /\ [][NextLoad]_vars

\* ------------------------------------------ concurrent admin writes
\* The backend applies a write when the request reaches it; the answer
\* reaches the suspended handler later, and the answers of two requests in
\* flight may arrive in either order.  SaveProductDone and DeleteProductDone
\* above take the two moments as one; here they are two steps.
BackendApplies(h) ==
  /\ h \in handlers /\ h.pc \in {"saveProduct", "deleteProduct"}
  /\ cloudProducts' = IF h.pc = "saveProduct" THEN CloudSave(cloudProducts, h.arg)
                      ELSE CloudDelete(cloudProducts, h.arg)
  /\ handlers' = (handlers \ {h}) \cup
                   {[h EXCEPT !.pc = IF h.pc = "saveProduct" THEN "savedProduct"
                                     ELSE "deletedProduct"]}
  /\ UNCHANGED <<syncVars, envVars, productsStore, categoriesStore, cloudCategories,
                 promoVars, nreq, req, resp>>

\* lines 74-75, 1176-1188: the upsert has returned the stored row
SaveProductReturns(h) ==
  /\ h \in handlers /\ h.pc = "savedProduct"
  /\ productsStore' = CacheProduct(productsStore, h.arg)
  /\ handlers' = handlers \ {h}
  /\ resp' = AdminResp("upsertProduct", h.rid, 200, h.arg)
  /\ UNCHANGED <<syncVars, envVars, categoriesStore, cloudProducts, cloudCategories,
                 nreq, req, promoVars>>

\* lines 97-100, 1204-1211: the delete has returned
DeleteProductReturns(h) ==
  /\ h \in handlers /\ h.pc = "deletedProduct"
  /\ productsStore' = DeleteProductCache(productsStore, h.arg)
  /\ handlers' = handlers \ {h}
  /\ resp' = AdminResp("deleteProduct", h.rid, 200, h.arg)
  /\ UNCHANGED <<syncVars, envVars, categoriesStore, cloudProducts, cloudCategories,
                 nreq, req, promoVars>>

\* With the backend configured and never failing, the owner saves and
\* deletes one product, two requests at a time.
InitRace ==
  /\ salesStore = <<>>
  /\ stores = <<>>
  /\ productsStore = <<>>
  /\ categoriesStore = <<>>
  /\ promotionsStore = <<>>
  /\ cloudPromotions = <<>>
  /\ cloudProducts = <<>>
  /\ cloudCategories = <<>>
  /\ handlers = {}
  /\ nreq = 0
  /\ useSupabase = TRUE
  /\ now = 1
  /\ req = NoReq
  /\ resp = NoResp
  /\ saleLog = <<>>
  /\ catLog = <<>>
  /\ lastPushed = <<>>
  /\ pushLog = {}
  /\ lastCategory = <<>>
  /\ chunkLog = <<>>
  /\ lastWrite = NoWrite

RaceUpsertProduct ==
  /\ nreq < MaxRaceReqs
  /\ Cardinality(handlers) < MaxRaceInFlight
  /\ \E price \in 1..MaxPrice :
       UpsertProduct(OWNER_PASSWORD, [AuthProduct EXCEPT !.price = price])
  /\ UNCHANGED histVars

RaceDeleteProduct ==
  /\ nreq < MaxRaceReqs
  /\ Cardinality(handlers) < MaxRaceInFlight
  /\ DeleteProduct(OWNER_PASSWORD, AuthProduct.id)
  /\ UNCHANGED histVars

RaceBackendApplies ==
  /\ \E h \in handlers : BackendApplies(h)
  /\ UNCHANGED histVars

RaceSaveProductReturns ==
  /\ \E h \in handlers : SaveProductReturns(h)
  /\ UNCHANGED histVars

RaceDeleteProductReturns ==
  /\ \E h \in handlers : DeleteProductReturns(h)
  /\ UNCHANGED histVars

NextRace ==
  \/ RaceUpsertProduct \/ RaceDeleteProduct \/ RaceBackendApplies
  \/ RaceSaveProductReturns \/ RaceDeleteProductReturns

SpecRace == InitRace /\ [][NextRace]_vars

\* ================================================================ claims
SaleNumbers(sales) == {sales[i].sale_number : i \in 1..Len(sales)}
SameBag(a, b) == \A x \in Range(a) \cup Range(b) : Count(a, x) = Count(b, x)
AllSales(m) == ConcatAll(MapValues(m))

\* C1 -- Idempotent push: a valid push to a store whose ledger already holds
\* every sale number of the batch accepts 0 records, leaves every ledger as
\* it was and reports the ledger's former length as totalSales.
C1_IdempotentPush ==
  [][ ( /\ req'.op = "push" /\ resp'.status = 200
        /\ MapHas(salesStore, req'.storeId)
        /\ Range(req'.numbers) \subseteq SaleNumbers(MapGet(salesStore, req'.storeId)) )
      => ( /\ resp'.accepted = 0
           /\ salesStore' = salesStore
           /\ resp'.totalSales = Len(MapGet(salesStore, req'.storeId)) ) ]_vars

\* a non-empty batch was pushed again and nothing of it was accepted
C1_Witness ==
  /\ req.op = "push" /\ resp.status = 200
  /\ Len(req.numbers) > 0 /\ resp.accepted = 0
  /\ resp.totalSales = Len(MapGet(salesStore, req.storeId))

\* C2 -- Ledger uniqueness: no ledger holds two records with the same
\* sale_number.
C2_LedgerUnique ==
  \A e \in 1..Len(salesStore) :
    \A i, j \in 1..Len(salesStore[e].v) :
      i # j => salesStore[e].v[i].sale_number # salesStore[e].v[j].sale_number

\* C3 -- Sales are never removed or altered: every step keeps every ledger,
\* keeps every stored record (with its multiplicity), and adds no record
\* under a sale number the ledger already held.
C3_SalesImmutable ==
  [][ \A e \in 1..Len(salesStore) :
        LET k == salesStore[e].k
            old == salesStore[e].v
        IN /\ MapHas(salesStore', k)
           /\ \A r \in Range(old) : Count(MapGet(salesStore', k), r) = Count(old, r)
           /\ \A r \in Range(MapGet(salesStore', k)) :
                r.sale_number \in SaleNumbers(old) => r \in Range(old) ]_vars

\* a push carried a stored sale number with another content and was dropped
C3_Witness ==
  /\ req.op = "push" /\ resp.status = 200
  /\ req.conflicts > 0 /\ resp.accepted = 0
  /\ Len(MapGet(salesStore, req.storeId)) > 0

\* C4 -- Push validation: a push without storeId, or whose sales is absent,
\* not an array or an empty array, is answered 400 and changes no collection.
C4_PushValidation ==
  [][ ( /\ req'.op = "push"
        /\ \/ ~ Truthy(req'.storeId)
           \/ req'.kind # "arr"
           \/ req'.numbers = <<>> )
      => ( /\ resp'.status = 400
           /\ salesStore' = salesStore
           /\ stores' = stores ) ]_vars

\* C5 -- Pull excludes self: a pull by a store whose id Push accepts returns
\* exactly the sales of the ledgers of the other stores; a pull naming no
\* store returns the sales of every ledger.
OtherLedgers(m, s) == ConcatAll([i \in 1..Len(m) |-> IF m[i].k = s THEN <<>> ELSE m[i].v])

C5_PullExcludesSelf ==
  (req.op = "pull" /\ req.since = NoSince) =>
    /\ req.storeId = Absent => SameBag(resp.sales, AllSales(salesStore))
    /\ Truthy(req.storeId) => SameBag(resp.sales, OtherLedgers(salesStore, req.storeId))

\* C6 -- Since filter: a pull with since = T returns exactly the sales, of
\* the ledgers the same pull without since returns, whose event time
\* (created_at, else timestamp) is strictly greater than T; with no storeId
\* these are the ledgers of all stores.
EventTimeAfter(sale, T) ==
  \/ sale.created_at # 0 /\ sale.created_at > T
  \/ sale.created_at = 0 /\ sale.timestamp # 0 /\ sale.timestamp > T

C6_SinceFilter ==
  (req.op = "pull" /\ req.since.t = "date") =>
    /\ SameBag(resp.sales,
               SelectSeq(PullSales(salesStore, ToQuery(req.storeId), NoSince),
                         LAMBDA sale : EventTimeAfter(sale, req.since.v)))
    /\ req.storeId = Absent =>
         SameBag(resp.sales,
                 SelectSeq(AllSales(salesStore),
                           LAMBDA sale : EventTimeAfter(sale, req.since.v)))

\* a pull with since dropped a sale dated exactly at since and kept a newer one
C6_Witness ==
  /\ req.op = "pull" /\ req.since.t = "date" /\ req.since.v > 0
  /\ \E i \in 1..Len(AllSales(salesStore)) :
       /\ AllSales(salesStore)[i].created_at = req.since.v
       /\ AllSales(salesStore)[i] \notin Range(resp.sales)
  /\ \E i \in 1..Len(resp.sales) : resp.sales[i].created_at > req.since.v

\* C7 -- Pull ordering: the list a pull returns is in non-increasing order of
\* event time, an undated sale counting as time 0.
OrderTime(sale) ==
  IF sale.created_at # 0 THEN sale.created_at
  ELSE IF sale.timestamp # 0 THEN sale.timestamp ELSE 0

C7_PullOrdering ==
  req.op = "pull" =>
    \A i, j \in 1..Len(resp.sales) :
      i < j => OrderTime(resp.sales[i]) >= OrderTime(resp.sales[j])

\* a pull returned sales of two stores in another order than it collected them
C7_Witness ==
  /\ req.op = "pull" /\ Len(resp.sales) >= 2
  /\ PullCollect(salesStore, ToQuery(req.storeId), req.since) # resp.sales
  /\ OrderTime(resp.sales[1]) > OrderTime(resp.sales[2])
  /\ Len(salesStore) >= 2

\* C8 -- No lost updates: once no push is in flight, the store's ledger and
\* its product list are what the pushes made so far give when applied one
\* after the other in some order.
RECURSIVE SerialSales(_, _, _)
SerialSales(log, f, n) ==
  IF n = 0 THEN <<>> ELSE MergeSales(SerialSales(log, f, n - 1), log[f[n]])

RECURSIVE SerialProducts(_, _, _)
SerialProducts(log, f, n) ==
  IF n = 0 THEN <<>> ELSE MergeProducts(SerialProducts(log, f, n - 1), log[f[n]])

C8_NoLostUpdates ==
  handlers = {} =>
    /\ \E f \in Perms(Len(saleLog)) :
         MapGetOr(salesStore, Num(1), <<>>) = SerialSales(saleLog, f, Len(saleLog))
    /\ \E f \in Perms(Len(catLog)) :
         MapGetOr(productsStore, Num(1), <<>>) = SerialProducts(catLog, f, Len(catLog))

\* two catalog pushes of different products were in flight together, both are
\* done, and so are two sales pushes
C8_Witness ==
  /\ handlers = {} /\ Len(catLog) = 2 /\ Len(saleLog) = 2
  /\ resp.op = "pushCatalog" /\ resp.rid = 1
  /\ Len(MapGetOr(productsStore, Num(1), <<>>)) = 2
  /\ Len(MapGetOr(salesStore, Num(1), <<>>)) = 2

\* C9 -- Reporting snapshot consistency: the figures of every owner report
\* are the figures of the ledgers made of all the records of some of the
\* pushes handled so far and of no record of the others; no report counts a
\* part of what a push accepted.
ReportOps == {"report", "stores", "storeSales", "compare"}

\* the ledgers holding the records of the pushes K alone
RECURSIVE LedgersOf(_, _)
LedgersOf(m, K) ==
  IF K = {} THEN [i \in 1..Len(m) |-> [k |-> m[i].k, v |-> <<>>]]
  ELSE LET p == CHOOSE x \in K : TRUE
           rest == LedgersOf(m, K \ {p})
       IN MapSet(rest, p.storeId, MapGet(rest, p.storeId) \o p.accepted)

EventTimes(sales) ==
  [t \in {EventField(sales[i]) : i \in 1..Len(sales)} |->
     Cardinality({i \in 1..Len(sales) : EventField(sales[i]) = t})]

ReportFigures(r) ==
  CASE r.op = "report" ->
         {[id |-> e.id, revenue |-> e.revenue, transactions |-> e.transactions,
           salesByDay |-> e.salesByDay] : e \in Range(r.stores)}
    [] r.op = "stores" ->
         {[id |-> e.id, totalSales |-> e.figures.totalSales,
           todaySales |-> e.figures.todaySales,
           todayRevenue |-> e.figures.todayRevenue] :
            e \in {x \in Range(r.stores) : ~ x.registered \/ x.figures.totalSales > 0}}
    [] r.op = "storeSales" ->
         {[id |-> r.storeId, count |-> r.count, times |-> EventTimes(r.sales)]}
    [] r.op = "compare" ->
         {[id |-> e.storeId, dailyData |-> e.dailyData,
           totalRevenue |-> e.totalRevenue,
           totalTransactions |-> e.totalTransactions] : e \in Range(r.comparison)}

ReportOn(m) ==
  CASE req.op = "report" -> ConsolidatedAnswer(m, stores, req.start, req.end, now)
    [] req.op = "stores" -> StoreStatusAnswer(m, stores, now)
    [] req.op = "storeSales" ->
         StoreDetailAnswer(m, stores, req.storeId, req.start, req.end, req.limit, now)
    [] req.op = "compare" -> CompareAnswer(m, stores, req.period, now)

C9_ReportSnapshot ==
  (req.op \in ReportOps /\ resp.status = 200) =>
    \E K \in SUBSET pushLog :
      ReportFigures(resp) = ReportFigures(ReportOn(LedgersOf(salesStore, K)))

\* a report counted both records of a batch of two different sales
C9_Witness ==
  /\ req.op = "report" /\ resp.status = 200
  /\ \E p \in pushLog :
       /\ Len(p.accepted) = 2 /\ p.accepted[1] # p.accepted[2]
       /\ \E e \in Range(resp.stores) : e.id = p.storeId /\ e.transactions = 2


\* C10 -- Catalog upsert-by-key: a store's product list holds at most one
\* product per identity key, and the product held for a key is exactly the
\* record pushed last under that key.
C10_CatalogUpsert ==
  /\ \A e \in 1..Len(productsStore) :
       LET list == productsStore[e].v IN
       /\ \A i, j \in 1..Len(list) : i # j => ProductKey(list[i]) # ProductKey(list[j])
       /\ \A i \in 1..Len(list) :
            LET k == [s |-> productsStore[e].k, key |-> ProductKey(list[i])] IN
            MapHas(lastPushed, k) /\ MapGet(lastPushed, k).last = list[i]
  /\ \A e \in 1..Len(lastPushed) :
       /\ MapHas(productsStore, lastPushed[e].k.s)
       /\ lastPushed[e].v.last \in Range(MapGet(productsStore, lastPushed[e].k.s))

\* a product was pushed under a key that held a different record, and the
\* list holds the later one
C10_Witness ==
  \E e \in 1..Len(lastPushed) :
    /\ lastPushed[e].v.replaced
    /\ lastPushed[e].v.last \in Range(MapGetOr(productsStore, lastPushed[e].k.s, <<>>))
    /\ handlers = {}

\* C11 -- Identity precedence: a product is identified by its id when it has
\* one, else by its barcode, else by its sku.  Of the records pushed to a
\* store with one id the list holds exactly one, the one pushed last,
\* whatever their barcodes and skus; of the records without id it holds at
\* most one per barcode, and of those without id and barcode at most one per
\* sku.
PushedWithId(id) == {i \in 1..Len(catLog) : catLog[i][1].id = id}

C11_IdentityPrecedence ==
  LET list == MapGetOr(productsStore, Num(1), <<>>) IN
  /\ \A id \in 1..MaxProdId :
       PushedWithId(id) # {} =>
         /\ Cardinality({j \in 1..Len(list) : list[j].id = id}) = 1
         /\ catLog[CHOOSE i \in PushedWithId(id) :
                     \A k \in PushedWithId(id) : k <= i][1] \in Range(list)
  /\ \A i, j \in 1..Len(list) :
       (i # j /\ list[i].id = 0 /\ list[j].id = 0) =>
         /\ list[i].barcode # 0 => list[i].barcode # list[j].barcode
         /\ (list[i].barcode = 0 /\ list[j].barcode = 0) => list[i].sku # list[j].sku

\* two pushes carried one id with two different barcodes and two different
\* skus, and the list holds a single record with that id
C11_Witness ==
  /\ handlers = {}
  /\ \E i, j \in 1..Len(catLog) :
       /\ i < j
       /\ catLog[i][1].id # 0 /\ catLog[i][1].id = catLog[j][1].id
       /\ catLog[i][1].barcode # 0 /\ catLog[j][1].barcode # 0
       /\ catLog[i][1].barcode # catLog[j][1].barcode
       /\ catLog[i][1].sku # 0 /\ catLog[j][1].sku # 0
       /\ catLog[i][1].sku # catLog[j][1].sku
       /\ Cardinality({k \in 1..Len(MapGetOr(productsStore, Num(1), <<>>)) :
                         MapGetOr(productsStore, Num(1), <<>>)[k].id = catLog[i][1].id}) = 1

\* C12 -- PushCatalog scope: a catalog push of store s, from its arrival to
\* its response, changes no product list but that of s, no sales ledger and
\* not the registry; once it is answered, a catalog pull of any store
\* returns, for every category id pushed so far, the category pushed last
\* under that id, once.
CatalogStep == nreq' # nreq \/ handlers' # handlers

PushingStores ==
  IF nreq' # nreq THEN {req'.storeId} ELSE {h.storeId : h \in handlers \ handlers'}

CatalogPullStep ==
  /\ req'.op = "pullCatalog" /\ nreq' = nreq /\ handlers' = handlers
  /\ req' # req \/ resp' # resp

C12_PushCatalogScope ==
  [][/\ CatalogStep =>
          /\ salesStore' = salesStore /\ stores' = stores
          /\ promotionsStore' = promotionsStore
          /\ \A k \in MapKeys(productsStore) \cup MapKeys(productsStore') :
               k \notin PushingStores =>
                 /\ MapHas(productsStore, k) /\ MapHas(productsStore', k)
                 /\ MapGet(productsStore', k) = MapGet(productsStore, k)
     /\ handlers' = {} =>
          \A id \in DOMAIN lastCategory' :
            /\ MapHas(categoriesStore', Num(id))
            /\ MapGet(categoriesStore', Num(id)) = lastCategory'[id]
     /\ (CatalogPullStep /\ handlers' = {}) =>
          \A id \in DOMAIN lastCategory' :
            /\ lastCategory'[id] \in Range(resp'.categories)
            /\ Cardinality({i \in 1..Len(resp'.categories) :
                              resp'.categories[i].id = id}) = 1
    ]_vars

\* the request handled last is a catalog push with categories, answered with
\* success, that found a ledger, a registered store and another store's
\* product list in place
C12_Witness ==
  /\ req.op = "pushCatalog" /\ resp.op = "pushCatalog" /\ resp.status = 200
  /\ resp.rid = nreq /\ handlers = {}
  /\ salesStore # <<>> /\ stores # <<>>
  /\ Len(productsStore) = 2 /\ MapHas(productsStore, req.storeId)
  /\ DOMAIN lastCategory # {} /\ categoriesStore # <<>>

\* C13 -- PullCatalog source: a catalog pull without storeId returns store
\* 1's product list, a pull with storeId = s returns the product list of
\* store s (empty when s has none), and both return every category of the
\* category map.
RequestedList(ps, storeId) ==
  MapGetOr(ps, IF storeId = Absent THEN Num(1) ELSE storeId, <<>>)

C13_PullCatalogSource ==
  [][CatalogPullStep =>
       /\ resp'.status = 200
       /\ resp'.products = RequestedList(productsStore, req'.storeId)
       /\ resp'.categories = MapValues(categoriesStore)
    ]_vars

\* C14 -- Best-effort secondary write: with the backend configured, whatever
\* backend writes fail, a catalog push that has been answered has written
\* its batch in consecutive chunks of at most 100 products that cover the
\* batch exactly once, its products are merged into the store's list, and
\* its answer is a success.
WritesOf(rid) == SelectSeq(chunkLog, LAMBDA w : w.rid = rid)

RowProduct(row) == [id |-> row.id, barcode |-> row.barcode, sku |-> row.sku,
                    price |-> row.price]

WrittenProducts(rid) ==
  ConcatAll([i \in 1..Len(WritesOf(rid)) |->
               [j \in 1..Len(WritesOf(rid)[i].rows) |->
                  RowProduct(WritesOf(rid)[i].rows[j])]])

Answered(rid) == rid <= nreq /\ \A h \in handlers : h.rid # rid

C14_BestEffortWrite ==
  /\ resp.op = "pushCatalog" => resp.status = 200 /\ Answered(resp.rid)
  /\ \A rid \in 1..Len(catLog) :
       /\ \A i \in 1..Len(catLog[rid]) :
            (\A later \in (rid + 1)..Len(catLog) : Len(catLog[later]) < i) =>
              catLog[rid][i] \in Range(MapGetOr(productsStore, Num(1), <<>>))
       /\ Answered(rid) =>
            /\ WrittenProducts(rid) = catLog[rid]
            /\ \A i \in 1..Len(WritesOf(rid)) :
                 /\ Len(WritesOf(rid)[i].rows) \in 1..BatchSize
                 /\ \A j \in 1..Len(WritesOf(rid)[i].rows) :
                      WritesOf(rid)[i].rows[j].store_id = Num(1)

\* a push of more than two chunks was answered with success after one of its
\* writes returned an error, one threw and one succeeded
C14_Witness ==
  /\ resp.op = "pushCatalog" /\ resp.status = 200 /\ handlers = {}
  /\ Len(catLog[resp.rid]) > 2 * BatchSize
  /\ {WritesOf(resp.rid)[i].outcome : i \in 1..Len(WritesOf(resp.rid))} = Outcomes
  /\ resp.totalProducts = Len(catLog[resp.rid])

\* C17 -- Delete removes everywhere: once DeleteProduct(id) has answered
\* with success, no store's product list holds a record with that id; once
\* DeletePromotion(id) has answered with success, no promotion list holds a
\* record with that id.
HoldsId(m, id) ==
  \E e \in 1..Len(m) : \E i \in 1..Len(m[e].v) : m[e].v[i].id = id

C17_DeleteEverywhere ==
  /\ (resp.op = "deleteProduct" /\ resp.status = 200) =>
       ~ HoldsId(productsStore, resp.arg)
  /\ (resp.op = "deletePromotion" /\ resp.status = 200) =>
       ~ HoldsId(promotionsStore, resp.arg)

\* C15 -- Admin product write is immediately visible: when the catalog write
\* answered last is an UpsertProduct(p) answered with success, a catalog
\* pull without storeId returns a list holding a product with p's id in
\* which every field that p carries has p's value.
HasValuesOf(q, p) == \A f \in DOMAIN p : p[f] # 0 => (f \in DOMAIN q /\ q[f] = p[f])

C15_AdminWriteVisible ==
  [][(/\ CatalogPullStep /\ req'.storeId = Absent
      /\ lastWrite.op = "upsertProduct" /\ lastWrite.status = 200) =>
       \E i \in 1..Len(resp'.products) :
         /\ resp'.products[i].id = lastWrite.arg.id
         /\ HasValuesOf(resp'.products[i], lastWrite.arg)
    ]_vars

\* a pull without storeId returned, at the price sent, the product of an
\* upsert that was not the first request and was the write answered last
C15_Witness ==
  /\ req.op = "pullCatalog" /\ req.storeId = Absent
  /\ lastWrite.op = "upsertProduct" /\ lastWrite.status = 200 /\ lastWrite.rid > 1
  /\ lastWrite.arg.price = MaxPrice /\ lastWrite.arg.id <= MaxProdId
  /\ Len(resp.products) = 1
  /\ resp.products[1].id = lastWrite.arg.id /\ resp.products[1].price = MaxPrice
  /\ handlers = {}

\* C19 -- CRUD never fails silently: when the backend write of an
\* UpsertProduct, UpsertCategory or UpsertPromotion fails, the request is
\* answered with an internal error.
BackendFailed(w) == w.backend \in {"error", "throw"}

C19_NoSilentFailure ==
  (lastWrite.op \in {"upsertProduct", "upsertCategory", "upsertPromotion"}
   /\ BackendFailed(lastWrite)) => lastWrite.status = 500

\* C20 -- Writes survive backend failure in the cache: when the backend
\* write of an UpsertProduct(p) has failed, the list of store 1 holds a
\* product with p's id and p's values, and a catalog pull without storeId
\* returns it.
C20_CacheSurvivesFailure ==
  [][/\ (lastWrite'.op = "upsertProduct" /\ BackendFailed(lastWrite')) =>
          \E i \in 1..Len(MapGetOr(productsStore', Num(1), <<>>)) :
            /\ MapGet(productsStore', Num(1))[i].id = lastWrite'.arg.id
            /\ HasValuesOf(MapGet(productsStore', Num(1))[i], lastWrite'.arg)
     /\ (/\ CatalogPullStep /\ req'.storeId = Absent
         /\ lastWrite.op = "upsertProduct" /\ BackendFailed(lastWrite)) =>
          \E i \in 1..Len(resp'.products) :
            /\ resp'.products[i].id = lastWrite.arg.id
            /\ HasValuesOf(resp'.products[i], lastWrite.arg)
    ]_vars

\* a pull without storeId returned a product whose backend write had thrown
C20_Witness ==
  /\ req.op = "pullCatalog" /\ req.storeId = Absent
  /\ lastWrite.op = "upsertProduct" /\ lastWrite.backend = "throw"
  /\ \E i \in 1..Len(resp.products) :
       /\ resp.products[i].id = lastWrite.arg.id
       /\ resp.products[i].updated_at = lastWrite.arg.updated_at
  /\ cloudProducts = <<>> /\ handlers = {}

\* a value of the categories list is a category record with this id
CategoryWithId(v, id) == ~ IsArray(v) /\ v.id = id

\* C16 -- Admin category write reaches the replicated catalog: when the
\* category write answered last is UpsertCategory(c), it succeeded, and a
\* pull returns a categories list whose elements are all category records
\* and in which exactly one has c's id.
C16_AdminCategoryVisible ==
  [][(CatalogPullStep /\ lastWrite.op = "upsertCategory") =>
        /\ lastWrite.status = 200
        /\ \A i \in 1..Len(resp'.categories) : ~ IsArray(resp'.categories[i])
        /\ Cardinality({i \in 1..Len(resp'.categories) :
                          CategoryWithId(resp'.categories[i], lastWrite.arg.id)}) = 1
    ]_vars

\* C18 -- Category deletion removes a replicated category: when
\* DeleteCategory(id) is answered and the category map held a category with
\* that id put there by PushCatalog, the answer is a success and the list a
\* pull returns afterwards holds no category with that id.
C18_DeleteReplicatedCategory ==
  [][(/\ lastWrite' # lastWrite /\ lastWrite'.op = "deleteCategory"
      /\ \E i \in 1..Len(categoriesStore) :
           CategoryWithId(categoriesStore[i].v, lastWrite'.arg)) =>
        /\ lastWrite'.status = 200
        /\ \A i \in 1..Len(MapValues(categoriesStore')) :
             ~ CategoryWithId(MapValues(categoriesStore')[i], lastWrite'.arg)
    ]_vars

\* C21 -- Not found: a DeleteProduct or DeletePromotion whose id matches no
\* record of any list is answered with a not-found error (status 404) and
\* changes no collection.
C21_DeleteNotFound ==
  [][ /\ (nreq' = nreq + 1 /\ req'.op = "deleteProduct"
          /\ ~ HoldsId(productsStore, req'.arg)) =>
            /\ resp'.status = 404
            /\ productsStore' = productsStore /\ promotionsStore' = promotionsStore
      /\ (nreq' = nreq + 1 /\ req'.op = "deletePromotion"
          /\ ~ HoldsId(promotionsStore, req'.arg)) =>
            /\ resp'.status = 404
            /\ productsStore' = productsStore /\ promotionsStore' = promotionsStore
    ]_vars

\* the operations behind the owner password
GatedOps ==
  ReportOps \cup {"upsertProduct", "deleteProduct", "upsertCategory", "deleteCategory",
                  "upsertPromotion", "deletePromotion"}

\* a step in which a request behind the owner password is received
GatedRequestStep ==
  /\ req'.op \in GatedOps
  /\ nreq' = nreq + 1 \/ (nreq' = nreq /\ handlers' = handlers /\ req'.op \in ReportOps)

\* C22 -- Auth gate: an owner report or admin request whose password is
\* missing or differs from the configured one is answered 401, leaves the
\* five collections as they were and starts no backend call.
C22_AuthGate ==
  [][(GatedRequestStep /\ req'.password # OWNER_PASSWORD) =>
        /\ resp'.status = 401
        /\ salesStore' = salesStore /\ stores' = stores
        /\ productsStore' = productsStore /\ categoriesStore' = categoriesStore
        /\ promotionsStore' = promotionsStore
        /\ handlers' = handlers
        /\ cloudProducts' = cloudProducts /\ cloudCategories' = cloudCategories
        /\ cloudPromotions' = cloudPromotions
    ]_vars

\* with a backend, a delete of a stored product came without the right
\* password and was turned away
C22_Witness ==
  /\ req.op = "deleteProduct" /\ req.password # OWNER_PASSWORD
  /\ resp.op = "deleteProduct" /\ resp.status = 401
  /\ HoldsId(productsStore, req.arg)
  /\ useSupabase /\ cloudProducts # <<>> /\ handlers = {}

\* the number of records an admin list holds
AdminListLen(m) == Len(MapGetOr(m, Num(1), <<>>))
AdminCategoriesLen(m) == Len(CategoryAt1(m).array)

\* a create (an upsert without id) is answered with success
CreateAnswered(op) ==
  /\ resp' # resp /\ resp'.op = op /\ resp'.status = 200
  /\ "created_at" \in DOMAIN resp'.arg

\* C23 -- New identifiers are unique: a record created without id gets an
\* identifier no earlier create was given, so that every create answered
\* with success adds one record to its list.
C23_NewIdsUnique ==
  [][ /\ CreateAnswered("upsertProduct") =>
           AdminListLen(productsStore') = AdminListLen(productsStore) + 1
      /\ CreateAnswered("upsertCategory") =>
           AdminCategoriesLen(categoriesStore') = AdminCategoriesLen(categoriesStore) + 1
      /\ CreateAnswered("upsertPromotion") =>
           AdminListLen(promotionsStore') = AdminListLen(promotionsStore) + 1
    ]_vars

\* a quotient q stands for n / d
IsQuotient(q, n, d) == IF d = 0 THEN q.n = 0 ELSE q.n * d = n * q.d

\* C24 -- Report totals consistency: in every consolidated report,
\* totals.totalRevenue is the sum of the listed stores' revenues,
\* totals.totalTransactions the sum of their transactions, and
\* totals.avgTicket is totalRevenue / totalTransactions, or 0 when there is
\* no transaction.
C24_ReportTotals ==
  (req.op = "report" /\ resp.status = 200) =>
    /\ resp.totals.totalRevenue = SumField(resp.stores, "revenue")
    /\ resp.totals.totalTransactions = SumField(resp.stores, "transactions")
    /\ IsQuotient(resp.totals.avgTicket, resp.totals.totalRevenue,
                  resp.totals.totalTransactions)

\* a report over one day lists two stores with sales on that day while a
\* stored sale lies outside the range
C24_Witness ==
  /\ req.op = "report" /\ resp.status = 200
  /\ req.start # NoDay /\ req.end # NoDay
  /\ Len(resp.stores) = 2
  /\ \A i \in 1..2 : resp.stores[i].revenue > 0
  /\ resp.stores[1].revenue # resp.stores[2].revenue
  /\ resp.totals.totalTransactions < TotalRecords(salesStore)

\* the ids a report lists, and the stores with at least one stored sale
ListedIds(list) == {list[i].id : i \in 1..Len(list)}
StoresWithSales(m) == {m[i].k : i \in {j \in 1..Len(m) : m[j].v # <<>>}}

\* C25 -- Report store set: the stores a consolidated report lists are
\* exactly the stores with at least one sale ever recorded, each listed
\* once.
C25_ReportStoreSet ==
  (req.op = "report" /\ resp.status = 200) =>
    /\ ListedIds(resp.stores) = StoresWithSales(salesStore)
    /\ Len(resp.stores) = Cardinality(ListedIds(resp.stores))

\* the sales of a ledger with an event time from lo to hi, both included
SalesWithin(sales, lo, hi) ==
  SelectSeq(sales, LAMBDA sale :
    EventField(sale) # 0 /\ lo <= EventField(sale) /\ EventField(sale) <= hi)

\* C26 -- Per-store report figures: for every listed store, transactions is
\* the number of the store's sales with start <= event time <= end, revenue
\* the sum of their totals, and avgTicket is revenue / transactions, or 0
\* when there is none.
C26_StoreFigures ==
  (req.op = "report" /\ resp.status = 200) =>
    \A i \in 1..Len(resp.stores) :
      LET e == resp.stores[i]
          within == SalesWithin(MapGet(salesStore, e.id), RangeStart(req.start).ms,
                                RangeEnd(req.end, now).ms)
      IN /\ e.transactions = Len(within)
         /\ e.revenue = SumTotals(within)
         /\ IsQuotient(e.avgTicket, SumTotals(within), Len(within))

\* a report over a given range lists a store with one sale dated at the very
\* end of the range, counted, and another sale outside the range
C26_Witness ==
  /\ req.op = "report" /\ resp.status = 200
  /\ req.start # NoDay /\ req.end # NoDay
  /\ \E i \in 1..Len(resp.stores) :
       LET ledger == MapGet(salesStore, resp.stores[i].id) IN
       /\ resp.stores[i].transactions = 1
       /\ Len(ledger) = 2
       /\ \E j \in 1..2 : EventField(ledger[j]) = RangeEnd(req.end, now).ms

\* the sum of a field over the buckets of the days D
RECURSIVE SumBuckets(_, _, _)
SumBuckets(buckets, D, f) ==
  IF D = {} THEN 0
  ELSE LET d == CHOOSE x \in D : TRUE
       IN buckets[d][f] + SumBuckets(buckets, D \ {d}, f)

\* C27 -- Daily buckets partition the store's figures: in every entry of a
\* consolidated report the bucket revenues sum to the store's revenue and
\* the bucket transaction counts sum to the store's transactions.
C27_DailyBuckets ==
  (req.op = "report" /\ resp.status = 200) =>
    \A i \in 1..Len(resp.stores) :
      LET e == resp.stores[i] IN
      /\ SumBuckets(e.salesByDay, DOMAIN e.salesByDay, "revenue") = e.revenue
      /\ SumBuckets(e.salesByDay, DOMAIN e.salesByDay, "transactions") = e.transactions

\* a report lists a store whose two sales fall on two days, and another
\* store with a sale
C27_Witness ==
  /\ req.op = "report" /\ resp.status = 200
  /\ Len(resp.stores) = 2
  /\ \E i \in 1..2 : Cardinality(DOMAIN resp.stores[i].salesByDay) = 2
  /\ \A i \in 1..2 : resp.stores[i].transactions > 0

\* C28 -- Store inference: the store list holds every registered store and
\* every store with a ledger exactly once; a store that is not registered is
\* listed under the placeholder name; totalSales is the size of the store's
\* ledger.
C28_StoreInference ==
  (req.op = "stores" /\ resp.status = 200) =>
    /\ ListedIds(resp.stores) = MapKeys(stores) \cup MapKeys(salesStore)
    /\ Len(resp.stores) = Cardinality(ListedIds(resp.stores))
    /\ \A i \in 1..Len(resp.stores) :
         LET e == resp.stores[i] IN
         /\ ~ MapHas(stores, e.id) => e.name = Placeholder(e.id)
         /\ MapHas(stores, e.id) => e.name = MapGet(stores, e.id).name
         /\ e.figures.totalSales = Len(MapGetOr(salesStore, e.id, <<>>))

\* the store list holds a registered store with sales and a store with sales
\* that never registered
C28_Witness ==
  /\ req.op = "stores" /\ resp.status = 200
  /\ \E i, j \in 1..Len(resp.stores) :
       /\ MapHas(stores, resp.stores[i].id) /\ resp.stores[i].figures.totalSales > 0
       /\ ~ MapHas(stores, resp.stores[j].id) /\ resp.stores[j].figures.totalSales > 0
       /\ resp.stores[j].name = Placeholder(resp.stores[j].id)

\* C29 -- Today's figures: for every listed store, todaySales is the number
\* of the store's sales with an event time from the midnight of the current
\* day up to now, and todayRevenue the sum of their totals.
C29_TodayFigures ==
  (req.op = "stores" /\ resp.status = 200) =>
    \A i \in 1..Len(resp.stores) :
      LET e == resp.stores[i]
          today == SalesWithin(MapGetOr(salesStore, e.id, <<>>), Midnight(now), now)
      IN /\ e.figures.todaySales = Len(today)
         /\ e.figures.todayRevenue = SumTotals(today)

\* the sale of a ledger dated last (0 when none has an event time)
LastEventTime(sales) ==
  IF \A i \in 1..Len(sales) : EventField(sales[i]) = 0 THEN 0
  ELSE CHOOSE t \in {EventField(sales[i]) : i \in 1..Len(sales)} :
         \A i \in 1..Len(sales) : EventField(sales[i]) <= t

\* C30 -- Activity flag: for every listed store, isActive holds exactly when
\* the store has a sale and the event time of its most recent sale lies
\* within the 24 hours before now.
C30_ActivityFlag ==
  (req.op = "stores" /\ resp.status = 200) =>
    \A i \in 1..Len(resp.stores) :
      LET e == resp.stores[i]
          last == LastEventTime(MapGetOr(salesStore, e.id, <<>>))
      IN e.figures.isActive <=> (last # 0 /\ last <= now /\ now - last < DayLen)

\* whether a list of sales runs from the most recent event time to the oldest
NewestFirst(sales) ==
  \A i, j \in 1..Len(sales) :
    i < j => EventField(sales[i]) >= EventField(sales[j])

\* whether list holds k of the sales of all, each as often as all has it at
\* most, and no sale of all left out is more recent than one in list
MostRecentOf(list, all, k) ==
  /\ Len(list) = k
  /\ \A x \in Range(list) : Count(list, x) <= Count(all, x)
  /\ \A x \in Range(all) :
       Count(list, x) < Count(all, x) =>
         \A i \in 1..Len(list) : EventField(list[i]) >= EventField(x)

\* C31 -- StoreDetail result: for the store whose id is written in the path,
\* StoreDetail returns, most recent first, exactly the min(limit, n) most
\* recent of the n sales of that store's ledger with start <= event time <=
\* end (limit 100 by default); count and totalRevenue are the number and
\* the sum of totals of the returned sales.
C31_StoreDetail ==
  (req.op = "storeSales" /\ resp.status = 200) =>
    \A i \in 1..Len(salesStore) :
      ToQuery(salesStore[i].k) = req.storeId =>
        LET within == SalesWithin(salesStore[i].v, RangeStart(req.start).ms,
                                  RangeEnd(req.end, now).ms)
        IN /\ NewestFirst(resp.sales)
           /\ MostRecentOf(resp.sales, within, Min(LimitOf(req.limit), Len(within)))
           /\ resp.count = Len(resp.sales)
           /\ resp.totalRevenue = SumTotals(resp.sales)

\* the same statement for the stores that push under a numeric id
C31_NumericIds ==
  (req.op = "storeSales" /\ resp.status = 200) =>
    \A i \in 1..Len(salesStore) :
      (salesStore[i].k.t = "num" /\ ToQuery(salesStore[i].k) = req.storeId) =>
        LET within == SalesWithin(salesStore[i].v, RangeStart(req.start).ms,
                                  RangeEnd(req.end, now).ms)
        IN /\ NewestFirst(resp.sales)
           /\ MostRecentOf(resp.sales, within, Min(LimitOf(req.limit), Len(within)))
           /\ resp.count = Len(resp.sales)
           /\ resp.totalRevenue = SumTotals(resp.sales)

\* the sales of a ledger dated on one of the days lo..hi
SalesOnDays(sales, lo, hi) ==
  SelectSeq(sales, LAMBDA sale :
    EventField(sale) # 0 /\ DayOf(EventField(sale)) \in lo..hi)

\* C32 -- Compare window: for every period of days >= 1, Compare lists every
\* store with a ledger once, with exactly that many daily buckets for
\* consecutive days, oldest first and ending on today; each bucket counts
\* the ledger's sales dated on its day and no other, so that a sale dated
\* within the window is counted in exactly one bucket; the store's totals
\* are the sums over its buckets, and the stores are listed in
\* non-increasing order of total revenue.
C32_CompareWindow ==
  (req.op = "compare" /\ resp.status = 200 /\ PeriodOf(req.period) >= 1) =>
    LET days == PeriodOf(req.period)
        today == DayOf(now)
        list == resp.comparison
    IN /\ Len(list) = Len(salesStore)
       /\ {list[i].storeId : i \in 1..Len(list)} = MapKeys(salesStore)
       /\ \A i \in 1..Len(list) :
            LET e == list[i]
                sales == MapGet(salesStore, e.storeId)
            IN /\ Len(e.dailyData) = days
               /\ \A j \in 1..days :
                    LET day == today - (days - j) IN
                    /\ e.dailyData[j].date = day
                    /\ e.dailyData[j].transactions = Len(SalesOnDays(sales, day, day))
                    /\ e.dailyData[j].revenue = SumTotals(SalesOnDays(sales, day, day))
               /\ e.totalRevenue = SumField(e.dailyData, "revenue")
               /\ e.totalTransactions = SumField(e.dailyData, "transactions")
               /\ e.totalRevenue =
                    SumTotals(SalesOnDays(sales, today - (days - 1), today))
               /\ e.totalTransactions =
                    Len(SalesOnDays(sales, today - (days - 1), today))
       /\ \A i, j \in 1..Len(list) : i < j => list[i].totalRevenue >= list[j].totalRevenue

\* a comparison over two days of two stores: the store that pushed last sold
\* more, yesterday, and is listed first; the other sold today
C32_Witness ==
  /\ req.op = "compare" /\ resp.status = 200 /\ PeriodOf(req.period) = 2
  /\ Len(salesStore) = 2 /\ Len(resp.comparison) = 2
  /\ resp.comparison[1].storeId = salesStore[2].k
  /\ resp.comparison[1].totalRevenue > resp.comparison[2].totalRevenue
  /\ resp.comparison[1].dailyData[1].transactions = 1
  /\ resp.comparison[2].dailyData[2].transactions = 1

\* the read answered last was answered from the cache, with success
AnsweredFromCache ==
  IF resp.op = "get"
  THEN resp.returned /\ resp.source = "memory" /\ resp.rows = MemoryRows(resp.table)
  ELSE /\ resp.status = 200 /\ resp.source = "memory"
       /\ resp.rows = IF resp.op = "listPromotions" THEN MemoryRows("promotions")
                      ELSE IF resp.limit > 0
                      THEN Take(MemoryProducts(productsStore), resp.limit)
                      ELSE MemoryProducts(productsStore)

\* C33 -- Read fallback: whenever the backend read of a get operation of
\* the adapter, of the admin product listing or of the admin promotion
\* listing fails, by an error value or by a throw, the read is answered
\* from the in-memory cache with a success outcome.
C33_ReadFallback ==
  (/\ resp.op \in {"get", "listProducts", "listPromotions"}
   /\ lastWrite.op = resp.op /\ lastWrite.rid = resp.rid
   /\ lastWrite.backend \in {"error", "throw"}) => AnsweredFromCache

\* the same statement without the promotion listing whose query throws and
\* without the categories of a cache that holds a pushed category
C33_ExceptListingThrow ==
  (/\ resp.op \in {"get", "listProducts", "listPromotions"}
   /\ lastWrite.op = resp.op /\ lastWrite.rid = resp.rid
   /\ lastWrite.backend \in {"error", "throw"}
   /\ ~ (resp.op = "listPromotions" /\ lastWrite.backend = "throw")
   /\ ~ (resp.op = "get" /\ MemoryThrows(resp.table))) =>
     AnsweredFromCache

RECURSIVE SumValues(_)
SumValues(m) == IF m = <<>> THEN 0 ELSE Head(m).v + SumValues(Tail(m))

\* C34 -- Stats consistency: Stats changes nothing of the ledgers, the
\* registry and the catalogs; salesByStore[s] is the size of the ledger of s
\* for every store s that has a ledger, and totalSales is the sum of the
\* values of salesByStore.
C34_StatsConsistency ==
  [][ resp'.op = "stats" =>
        /\ UNCHANGED <<syncVars, catVars>>
        /\ \A i \in 1..Len(salesStore) :
             MapGet(resp'.salesByStore, PropertyKey(salesStore[i].k))
               = Len(salesStore[i].v)
        /\ resp'.totalSales = SumValues(resp'.salesByStore) ]_vars

\* the same statement while no two ledgers lie under ids of the same text
C34_DistinctTexts ==
  [][ (/\ resp'.op = "stats"
       /\ \A i, j \in 1..Len(salesStore) :
            i # j => PropertyKey(salesStore[i].k) # PropertyKey(salesStore[j].k)) =>
        /\ UNCHANGED <<syncVars, catVars>>
        /\ \A i \in 1..Len(salesStore) :
             MapGet(resp'.salesByStore, PropertyKey(salesStore[i].k))
               = Len(salesStore[i].v)
        /\ resp'.totalSales = SumValues(resp'.salesByStore) ]_vars

\* C35 -- Master catalog id uniqueness: on the in-memory persistence path,
\* after any sequence of PushCatalog calls to store 1 and UpsertProduct
\* calls, the product list of store 1 holds at most one product with any
\* given id, also after an UpsertProduct with a new id and the barcode of a
\* product of the list.
C35_MasterIdsUnique ==
  ~ useSupabase =>
    LET products == MapGetOr(productsStore, Num(1), <<>>) IN
    \A i, j \in 1..Len(products) :
      (i # j /\ products[i].id # 0) => products[i].id # products[j].id

\* the records of the push of handler h that a catalog answer lists
VisibleProducts(h, answer) ==
  {i \in 1..Len(h.products) : h.products[i] \in Range(answer.products)}

VisibleCategories(h, answer) ==
  {i \in 1..Len(h.categories) : h.categories[i] \in Range(answer.categories)}

\* C36 -- Atomic visibility of a catalog push: with the backend configured,
\* a PullCatalog answered while a PushCatalog carrying both products and
\* categories is in flight lists either none of that push's records, or
\* products and categories of it, never products of the push without its
\* categories.
C36_AtomicVisibility ==
  [][ (CatalogPullStep /\ useSupabase) =>
        \A h \in handlers :
          (h.pc \in {"chunk", "cat"} /\ h.products # <<>> /\ h.categories # <<>>) =>
            \/ VisibleProducts(h, resp') = {} /\ VisibleCategories(h, resp') = {}
            \/ VisibleProducts(h, resp') # {} /\ VisibleCategories(h, resp') # {} ]_vars

\* C37 -- Startup load does not lose writes: with the backend configured,
\* the product of a PushCatalog to store 1, or of an UpsertProduct, that was
\* answered with success while the startup load was in flight is in the
\* product list of store 1 once the load has completed.
C37_LoadKeepsWrites ==
  (useSupabase /\ ~ LoadInFlight) =>
    \A id \in pushLog :
      \E i \in 1..Len(MapGetOr(productsStore, Num(1), <<>>)) :
        MapGetOr(productsStore, Num(1), <<>>)[i].id = id

\* C38 -- Cache and backend agree after concurrent admin writes: with the
\* backend configured and never failing, for every interleaving of an
\* UpsertProduct and a DeleteProduct on one id, once no request is in
\* flight the in-memory catalog holds a product with that id if and only if
\* the backend does.
C38_CacheBackendAgree ==
  (useSupabase /\ handlers = {}) =>
    (HoldsId(productsStore, AuthProduct.id) <=> MapHas(cloudProducts, AuthProduct.id))

\* C39 -- StoreStatus is a pure read: a StoreStatus leaves the ledger of
\* every store as it was, the records and their stored order, and leaves
\* the store registry and the catalogs as they were.
C39_StatusPureRead ==
  [][ resp'.op = "stores" =>
        /\ salesStore' = salesStore
        /\ stores' = stores
        /\ UNCHANGED <<productsStore, categoriesStore, promotionsStore>> ]_vars

\* the same statement but for the stored order of a ledger's records
C39_RecordsKept ==
  [][ resp'.op = "stores" =>
        /\ MapKeys(salesStore') = MapKeys(salesStore)
        /\ \A k \in MapKeys(salesStore) :
             SameBag(MapGet(salesStore', k), MapGet(salesStore, k))
        /\ stores' = stores
        /\ UNCHANGED <<productsStore, categoriesStore, promotionsStore>> ]_vars

====
